---- MODULE Spec2Model ----
(***************************************************************************)
(* Kaleidoscope India (app.py): the image resolver and its helpers.        *)
(*                                                                         *)
(* A Python str is a sequence of one-character strings; a Python value     *)
(* that may or may not be a str (a CSV cell is a str or the float NaN, a   *)
(* missing dict key is None) is a record [t, s].  A pathlib.Path is the    *)
(* sequence of its components; an absolute path starts with the component  *)
(* "/".  The filesystem is the set of the regular files it holds; a        *)
(* directory exists when a file lies below it.                             *)
(***************************************************************************)
EXTENDS Naturals, Sequences, FiniteSets, TLC

VARIABLES
    fs,       \* the regular files that exist (paths relative to the cwd)
    broken,   \* paths whose stat() fails with an OSError such as EACCES/EIO
    args,     \* the arguments of the resolve_image call under study
    raises,   \* whether this Python's Path.exists()/is_file() re-raise an OSError
    result,   \* what the last resolve_image call did
    call_stems, \* the candidate stems the last call built for its local search
    norm,     \* the _norm round trip: input, _norm(input), _norm(_norm(input))
    match,    \* the fuzzy decision under study: a stem, a file name, the answers
    cache,    \* img_cache: the bytes of each cache file that exists
    stored,   \* history: the bytes the last finished write left in each cache file
    pool,     \* the prefetch workers: the fetch_and_process call each one runs, with
              \* its history (net: requests made, resps: their outcomes, wrote:
              \* whether it opened its cache file, seen: what a finished write
              \* had stored under its key when it started)
    nfetch,   \* history: how many fetch_and_process calls have started
    keys,     \* two catalog rows and the _id each loader gives them
    app,      \* app.py's Explore page: session state, query parameters, widgets,
              \* and what the last script run rendered
    explore,  \* pages/2_Explore.py: session state, widgets, the last script run
    quiz      \* Play Quiz: quiz_results.csv and the submission each viewer is in

fetchVars == <<cache, stored, pool, nfetch>>

pageVars == <<keys, app, explore, quiz>>

vars == <<fs, broken, raises, args, result, call_stems, norm, match, fetchVars, pageVars>>

---------------------------------------------------------------------------
(* Bounds of the model *)

\* Longest input string of the _norm round trip.
MaxLen == 4
\* Most files the filesystem holds at once.
MaxFiles == 2
\* Workers of the prefetch pool that run at once (the pool has 8).
MaxWorkers == 2
\* Most fetch_and_process calls of one behaviour.
MaxFetches == 3

---------------------------------------------------------------------------
(* Characters and str methods *)

LowerChars == <<"a", "b", "c", "d", "e", "f", "g", "h", "i", "j", "k", "l", "m", "n", "o", "p", "q", "r", "s", "t", "u", "v", "w", "x", "y", "z">>
UpperChars == <<"A", "B", "C", "D", "E", "F", "G", "H", "I", "J", "K", "L", "M", "N", "O", "P", "Q", "R", "S", "T", "U", "V", "W", "X", "Y", "Z">>
DigitChars == <<"0", "1", "2", "3", "4", "5", "6", "7", "8", "9">>

Range(f) == {f[i] : i \in DOMAIN f}

\* What str.strip() removes and what \s matches.
Whitespace == {" ", "\t", "\n"}

\* One character of str.lower().
ToLower(c) ==
    IF \E i \in 1..26 : UpperChars[i] = c
    THEN LowerChars[CHOOSE i \in 1..26 : UpperChars[i] = c]
    ELSE c

\* str.lower()
Lower(s) == [i \in 1..Len(s) |-> ToLower(s[i])]

SetMax(S) == CHOOSE x \in S : \A y \in S : x >= y

\* str.strip(chars): drop the leading and trailing characters that are in chars.
StripChars(s, chars) ==
    IF \A i \in 1..Len(s) : s[i] \in chars THEN <<>>
    ELSE SubSeq(s,
                CHOOSE i \in 1..Len(s) :
                    s[i] \notin chars /\ \A j \in 1..(i - 1) : s[j] \in chars,
                CHOOSE i \in 1..Len(s) :
                    s[i] \notin chars /\ \A j \in (i + 1)..Len(s) : s[j] \in chars)

\* str.strip()
Strip(s) == StripChars(s, Whitespace)

\* str.startswith(p)
StartsWith(s, p) == Len(s) >= Len(p) /\ SubSeq(s, 1, Len(p)) = p

\* needle in hay
Contains(hay, needle) ==
    \E i \in 0..Len(hay) : i + Len(needle) <= Len(hay) /\ SubSeq(hay, i + 1, i + Len(needle)) = needle

\* re.sub(r"[class]+", repl, s): every maximal run of characters of class
\* becomes one repl.
RECURSIVE SubRunsFrom(_, _, _, _)
SubRunsFrom(s, i, class, repl) ==
    IF i > Len(s) THEN <<>>
    ELSE IF s[i] \notin class THEN <<s[i]>> \o SubRunsFrom(s, i + 1, class, repl)
    ELSE IF i > 1 /\ s[i - 1] \in class THEN SubRunsFrom(s, i + 1, class, repl)
    ELSE repl \o SubRunsFrom(s, i + 1, class, repl)

ReSubRuns(s, class, repl) == SubRunsFrom(s, 1, class, repl)

\* s.replace(ch, "")
RemoveChar(s, ch) == SelectSeq(s, LAMBDA c : c # ch)

\* s.split(sep) for a one-character sep: the pieces between the separators,
\* empty pieces included.
Split(s, sep) ==
    LET seps == {i \in 1..Len(s) : s[i] = sep}
        \* the k-th separator; the ends of s stand for separators 0 and n + 1
        at(k) == IF k = 0 THEN 0
                 ELSE IF k > Cardinality(seps) THEN Len(s) + 1
                 ELSE CHOOSE p \in seps : Cardinality({q \in seps : q < p}) = k - 1
    IN  [k \in 1..(Cardinality(seps) + 1) |-> SubSeq(s, at(k - 1) + 1, at(k) - 1)]

\* sep.join(parts)
RECURSIVE JoinFrom(_, _, _)
JoinFrom(parts, i, sep) ==
    IF i > Len(parts) THEN <<>>
    ELSE IF i = Len(parts) THEN parts[i]
    ELSE parts[i] \o sep \o JoinFrom(parts, i + 1, sep)

Join(parts, sep) == JoinFrom(parts, 1, sep)

---------------------------------------------------------------------------
(* Python values *)

PStr(s) == [t |-> "str", s |-> s]
\* float('nan'): what pandas gives for an empty CSV cell.
PNaN == [t |-> "float", s |-> <<>>]
PNone == [t |-> "None", s |-> <<>>]

\* isinstance(x, str)
IsStr(x) == x.t = "str"

\* str(x)
PyStr(x) ==
    IF x.t = "str" THEN x.s
    ELSE IF x.t = "float" THEN <<"n", "a", "n">>
    ELSE <<"N", "o", "n", "e">>

\* bool(x): the empty str and None are falsy, NaN is truthy.
Truthy(x) == IF x.t = "str" THEN x.s # <<>> ELSE x.t # "None"

---------------------------------------------------------------------------
(* _norm *)

\* The characters the model's strings are made of.  Any character that is not
\* an ASCII letter or digit behaves in _norm like "-" does.
AllChars ==
    Range(LowerChars) \cup Range(UpperChars) \cup Range(DigitChars)
        \cup Whitespace \cup {"_", "-", ".", "/", ":", "(", ")"}

\* [^a-z0-9]
NotLowerAlnum == AllChars \ (Range(LowerChars) \cup Range(DigitChars))

\* A slip: strip("_") applied to the input instead of the result.
NormStripFirst(x) ==
    ReSubRuns(ReSubRuns(StripChars(Lower(PyStr(x)), {"_"}), NotLowerAlnum, <<"_">>), {"_"}, <<"_">>)

\* re.sub(r"_+", "_", re.sub(r"[^a-z0-9]+", "_", str(s).lower())).strip("_")
_norm(x) ==
    StripChars(ReSubRuns(ReSubRuns(Lower(PyStr(x)), NotLowerAlnum, <<"_">>), {"_"}, <<"_">>), {"_"})

\* The round trip before it starts.
NormIdle == [s |-> <<>>, once |-> <<>>, twice |-> <<>>, calls |-> 0]

---------------------------------------------------------------------------
(* Configuration of app.py *)

s_images == <<"i", "m", "a", "g", "e", "s">>
s_images_verified == <<"i", "m", "a", "g", "e", "s", "_", "v", "e", "r", "i", "f", "i", "e", "d">>
s_images_verified_dishes == <<"i", "m", "a", "g", "e", "s", "_", "v", "e", "r", "i", "f", "i", "e", "d", "_", "d", "i", "s", "h", "e", "s">>
s_dishes == <<"d", "i", "s", "h", "e", "s">>
s_attractions == <<"a", "t", "t", "r", "a", "c", "t", "i", "o", "n", "s">>
s_nan == <<"n", "a", "n">>
s_http == <<"h", "t", "t", "p", ":", "/", "/">>
s_https == <<"h", "t", "t", "p", "s", ":", "/", "/">>

\* pathlib.Path("images_verified")
IMG_ROOT_ATTR == <<s_images_verified>>
\* pathlib.Path("images_verified_dishes")
IMG_ROOT_DISH == <<s_images_verified_dishes>>

IMG_EXTS ==
    << <<".", "j", "p", "g">>,
       <<".", "j", "p", "e", "g">>,
       <<".", "p", "n", "g">>,
       <<".", "w", "e", "b", "p">>,
       <<".", "g", "i", "f">> >>

STOP_WORDS ==
    { <<"t", "e", "m", "p", "l", "e">>,
      <<"m", "a", "n", "d", "i", "r">>,
      <<"f", "o", "r", "t">>,
      <<"p", "a", "l", "a", "c", "e">>,
      <<"g", "a", "t", "e">>,
      <<"p", "a", "r", "k">>,
      <<"l", "a", "k", "e">>,
      <<"b", "e", "a", "c", "h">>,
      <<"m", "u", "s", "e", "u", "m">>,
      <<"n", "a", "t", "i", "o", "n", "a", "l">>,
      <<"s", "t", "a", "t", "e">>,
      <<"m", "o", "n", "u", "m", "e", "n", "t">>,
      <<"j", "i">>,
      <<"s", "r", "i">>,
      <<"s", "h", "r", "i">>,
      <<"m", "a", "a">>,
      <<"m", "a", "t", "a">>,
      <<"b", "a", "b", "a">>,
      <<"t", "h", "e">> }

---------------------------------------------------------------------------
(* pathlib *)

\* pathlib.Path(v).parts: the components between the slashes, empty and "."
\* components dropped, "/" first when v is absolute.
ParsePath(v) ==
    LET comps == SelectSeq(Split(v, "/"), LAMBDA c : c # <<>> /\ c # <<".">>)
    IN  IF v # <<>> /\ v[1] = "/" THEN << <<"/">> >> \o comps ELSE comps

\* p.is_absolute()
IsAbsolute(p) == p # <<>> /\ p[1] = <<"/">>

\* r / v: an absolute v replaces r.
PathJoin(r, v) ==
    LET q == ParsePath(v)
    IN  IF IsAbsolute(q) THEN q ELSE r \o q

\* str(p)
PathStr(p) ==
    IF p = <<>> THEN <<".">>
    ELSE IF IsAbsolute(p) THEN <<"/">> \o Join(Tail(p), <<"/">>)
    ELSE Join(p, <<"/">>)

\* The last dot of a file name that is neither its first nor its last
\* character, or 0.
SuffixDot(name) ==
    LET dots == {i \in 1..Len(name) : name[i] = "."}
    IN  IF dots = {} THEN 0
        ELSE IF SetMax(dots) > 1 /\ SetMax(dots) < Len(name) THEN SetMax(dots)
        ELSE 0

\* p.suffix
PathSuffix(p) ==
    LET name == p[Len(p)]
    IN  IF SuffixDot(name) = 0 THEN <<>> ELSE SubSeq(name, SuffixDot(name), Len(name))

\* p.stem
PathStem(p) ==
    LET name == p[Len(p)]
    IN  IF SuffixDot(name) = 0 THEN name ELSE SubSeq(name, 1, SuffixDot(name) - 1)

---------------------------------------------------------------------------
(* The filesystem and its probes.  env is what one call runs against:      *)
(* files (the regular files), broken (paths whose stat() fails), order     *)
(* (the order in which directory scans list the files, which the operating *)
(* system chooses) and propagate (whether this Python's Path.exists() and  *)
(* is_file() re-raise an OSError that is not ENOENT/ENOTDIR/EBADF/ELOOP,   *)
(* as pathlib does up to 3.12, or answer False).                           *)

\* The directories: the cwd, "/" and every directory a file lies below.
Dirs(files) ==
    {<<>>, << <<"/">> >>}
        \cup UNION {{SubSeq(f, 1, k) : k \in 0..(Len(f) - 1)} : f \in files}

\* stat(p) fails with an OSError other than "no such file": p is broken, or a
\* component of p is longer than NAME_MAX (255) inside an existing directory
\* (ENAMETOOLONG).
StatFails(env, p) ==
    \/ p \in env.broken
    \/ \E k \in 1..Len(p) : Len(p[k]) > 255 /\ SubSeq(p, 1, k - 1) \in Dirs(env.files)

\* p.exists(): "yes", "no", or "raise" when the OSError propagates.
PathExists(env, p) ==
    IF StatFails(env, p) THEN (IF env.propagate THEN "raise" ELSE "no")
    ELSE IF p \in env.files \cup Dirs(env.files) THEN "yes"
    ELSE "no"

\* p.is_file()
PathIsFile(env, p) ==
    IF StatFails(env, p) THEN (IF env.propagate THEN "raise" ELSE "no")
    ELSE IF p \in env.files THEN "yes"
    ELSE "no"

\* folder.rglob("*"), the regular files of it: the files directly in folder
\* first, then those of its subdirectories, each group in the scan's order.
IsBelow(f, folder) == Len(f) > Len(folder) /\ SubSeq(f, 1, Len(folder)) = folder

RGlob(env, folder) ==
    SelectSeq(env.order, LAMBDA f : IsBelow(f, folder) /\ Len(f) = Len(folder) + 1)
        \o SelectSeq(env.order, LAMBDA f : IsBelow(f, folder) /\ Len(f) > Len(folder) + 1)

\* What a call returns or does, with the paths it probed on the way.
Ret(s, probes) == [t |-> "str", s |-> s, probes |-> probes]
RetNone(probes) == [t |-> "None", s |-> <<>>, probes |-> probes]
Raised(probes) == [t |-> "raise", s |-> <<>>, probes |-> probes]
NoCall == [t |-> "nocall", s |-> <<>>, probes |-> {}]

\* for p in cands: if p.exists(): ...  -- the first candidate that exists.
FirstExisting(env, cands, i, log) ==
    LET found == {k \in i..Len(cands) : PathExists(env, cands[k]) # "no"}
        at == CHOOSE k \in found : \A n \in found : k <= n
    IN  IF found = {} THEN [t |-> "miss", at |-> 0, probes |-> log \cup {cands[k] : k \in i..Len(cands)}]
        ELSE [t |-> IF PathExists(env, cands[at]) = "raise" THEN "raise" ELSE "hit",
              at |-> at, probes |-> log \cup {cands[k] : k \in i..at}]

---------------------------------------------------------------------------
(* STRICT local lookup *)

\* {t for t in _norm(s).split("_") if t and t not in STOP_WORDS}
_tokset(s) ==
    {t \in Range(Split(_norm(PStr(s)), "_")) : t # <<>> /\ t \notin STOP_WORDS}

\* [A-Za-z0-9_]
AlnumUnderscore ==
    Range(LowerChars) \cup Range(UpperChars) \cup Range(DigitChars) \cup {"_"}

\* [raw, underscored, stripped], or [] for a name that is no str.
_folder_variants(name) ==
    IF ~IsStr(name) THEN <<>>
    ELSE LET underscored == ReSubRuns(Strip(name.s), Whitespace, <<"_">>)
         IN  <<name.s, underscored, SelectSeq(underscored, LAMBDA c : c \in AlnumUnderscore)>>

\* folder / f"{stem}{ext}" for stem in stem_norms for ext in IMG_EXTS
ExactCands(folder, stem_norms) ==
    [k \in 1..(Len(stem_norms) * Len(IMG_EXTS)) |->
        PathJoin(folder, stem_norms[((k - 1) \div Len(IMG_EXTS)) + 1]
                            \o IMG_EXTS[((k - 1) % Len(IMG_EXTS)) + 1])]

_exact_in(env, folder, stem_norms, log) ==
    LET e == PathExists(env, folder)
        cands == ExactCands(folder, stem_norms)
        h == FirstExisting(env, cands, 1, log \cup {folder})
    IN  IF e = "raise" THEN Raised(log \cup {folder})
        ELSE IF e = "no" THEN RetNone(log \cup {folder})
        ELSE IF h.t = "raise" THEN Raised(h.probes)
        ELSE IF h.t = "hit" THEN Ret(PathStr(cands[h.at]), h.probes)
        ELSE RetNone(h.probes)

\* A slip: the substring rule is applied to an empty candidate too.
LooseMatchUnguarded(cand_toks, cand_flat, toks, flat) ==
    \/ Cardinality(cand_toks \cap toks) >= 2
    \/ Contains(cand_flat, flat)
    \/ Contains(flat, cand_flat)

\* len(cand_toks & toks) >= 2 or (flat and (flat in cand_flat or cand_flat in flat))
LooseMatch(cand_toks, cand_flat, toks, flat) ==
    \/ Cardinality(cand_toks \cap toks) >= 2
    \/ flat # <<>> /\ (Contains(cand_flat, flat) \/ Contains(flat, cand_flat))

\* The file p matches one of the candidate stems.
LooseFileMatches(p, stem_toksets, stem_flat_subs) ==
    LET cand_norm == _norm(PStr(PathStem(p)))
    IN  \E k \in 1..Len(stem_toksets) :
            LooseMatch(_tokset(cand_norm), RemoveChar(cand_norm, "_"),
                       stem_toksets[k], stem_flat_subs[k])

\* for p in folder.rglob("*"): the first image file, in the scan's order, that
\* matches.
RECURSIVE LooseScan(_, _, _, _, _, _)
LooseScan(env, entries, i, stem_toksets, stem_flat_subs, log) ==
    IF i > Len(entries) THEN RetNone(log)
    ELSE IF PathIsFile(env, entries[i]) = "raise" THEN Raised(log \cup {entries[i]})
    ELSE IF /\ PathIsFile(env, entries[i]) = "yes"
            /\ Lower(PathSuffix(entries[i])) \in Range(IMG_EXTS)
            /\ LooseFileMatches(entries[i], stem_toksets, stem_flat_subs)
         THEN Ret(PathStr(entries[i]), log \cup {entries[i]})
    ELSE LooseScan(env, entries, i + 1, stem_toksets, stem_flat_subs, log \cup {entries[i]})

_loose_in(env, folder, stem_toksets, stem_flat_subs, log) ==
    LET e == PathExists(env, folder)
    IN  IF e = "raise" THEN Raised(log \cup {folder})
        ELSE IF e = "no" THEN RetNone(log \cup {folder})
        ELSE LooseScan(env, RGlob(env, folder), 1, stem_toksets, stem_flat_subs, log \cup {folder})

\* for where in (city_dir, state_dir): hit = _exact_in(where); if hit: return hit
RECURSIVE ExactPass(_, _, _, _, _)
ExactPass(env, wheres, i, stem_norms, log) ==
    IF i > Len(wheres) THEN RetNone(log)
    ELSE LET hit == _exact_in(env, wheres[i], stem_norms, log)
         IN  IF hit.t # "None" THEN hit
             ELSE ExactPass(env, wheres, i + 1, stem_norms, hit.probes)

\* for where in (city_dir, state_dir): hit = _loose_in(where); if hit: return hit
RECURSIVE LoosePass(_, _, _, _, _, _)
LoosePass(env, wheres, i, stem_toksets, stem_flat_subs, log) ==
    IF i > Len(wheres) THEN RetNone(log)
    ELSE LET hit == _loose_in(env, wheres[i], stem_toksets, stem_flat_subs, log)
         IN  IF hit.t # "None" THEN hit
             ELSE LoosePass(env, wheres, i + 1, stem_toksets, stem_flat_subs, hit.probes)

\* A slip: each folder gets its exact and then its fuzzy pass before the next
\* folder is looked at.
RECURSIVE FolderByFolder(_, _, _, _, _)
FolderByFolder(env, wheres, i, stems, log) ==
    IF i > Len(wheres) THEN RetNone(log)
    ELSE LET exact == _exact_in(env, wheres[i], [k \in 1..Len(stems) |-> _norm(PStr(stems[k]))], log)
             loose == _loose_in(env, wheres[i], [k \in 1..Len(stems) |-> _tokset(stems[k])],
                                [k \in 1..Len(stems) |-> RemoveChar(_norm(PStr(stems[k])), "_")],
                                exact.probes)
         IN  IF exact.t # "None" THEN exact
             ELSE IF loose.t # "None" THEN loose
             ELSE FolderByFolder(env, wheres, i + 1, stems, loose.probes)

SearchFoldersFolderByFolder(env, wheres, stems, log) == FolderByFolder(env, wheres, 1, stems, log)

\* The two passes over the folders found: wheres is (city_dir, state_dir)
\* without a city_dir that is None.
SearchFolders(env, wheres, stems, log) ==
    LET stem_norms == [k \in 1..Len(stems) |-> _norm(PStr(stems[k]))]
        stem_toksets == [k \in 1..Len(stems) |-> _tokset(stems[k])]
        stem_flat_subs == [k \in 1..Len(stems) |-> RemoveChar(stem_norms[k], "_")]
        exact == ExactPass(env, wheres, 1, stem_norms, log)
    IN  IF exact.t # "None" THEN exact
        ELSE LoosePass(env, wheres, 1, stem_toksets, stem_flat_subs, exact.probes)

_find_in_folder_strict(env, basefolder, state, city, stems, log) ==
    LET b == PathExists(env, basefolder)
        state_cands == [k \in 1..Len(_folder_variants(state)) |->
                            PathJoin(basefolder, _folder_variants(state)[k])]
        sh == FirstExisting(env, state_cands, 1, log \cup {basefolder})
        state_dir == state_cands[sh.at]
        city_cands == [k \in 1..Len(_folder_variants(city)) |->
                            PathJoin(state_dir, _folder_variants(city)[k])]
        ch == FirstExisting(env, city_cands, 1, sh.probes)
        wheres == (IF ch.t = "hit" THEN <<city_cands[ch.at]>> ELSE <<>>) \o <<state_dir>>
    IN  IF b = "raise" THEN Raised(log \cup {basefolder})
        ELSE IF b = "no" THEN RetNone(log \cup {basefolder})
        ELSE IF sh.t = "raise" THEN Raised(sh.probes)
        ELSE IF sh.t = "miss" THEN RetNone(sh.probes)
        ELSE IF ch.t = "raise" THEN Raised(ch.probes)
        ELSE SearchFolders(env, wheres, stems, ch.probes)

---------------------------------------------------------------------------
(* resolve_image *)

\* kind = "dish" if subdir == "dishes" else "attr"
KindOf(subdir) == IF subdir = s_dishes THEN "dish" ELSE "attr"

\* A slip: the attraction override is read whatever the kind.
OverrideUrlAttrOnly(a) == a.overrides.attr

\* overrides.get("dish_image_override_url") if kind == "dish"
\*     else overrides.get("attraction_image_override_url")
\* (a key that is missing, and overrides=None, give None).
OverrideUrl(a) ==
    IF KindOf(a.subdir) = "dish" THEN a.overrides.dish ELSE a.overrides.attr

\* isinstance(x, str) and x.strip() and x.strip().lower() != "nan":
\* the test of the override (line 199) and of the CSV value (line 203).
NonNanText(x) == IsStr(x) /\ Strip(x.s) # <<>> /\ Lower(Strip(x.s)) # s_nan

\* A slip: the text "nan" is not excluded.
NonEmptyText(x) == IsStr(x) /\ Strip(x.s) # <<>>

\* The test of line 203 on csv_val.
CsvApplies(x) == NonNanText(x)

\* A slip: only http:// is recognized.
IsHttpOnly(v) == StartsWith(v, s_http)

\* v.startswith(("http://", "https://"))
IsUrl(v) == StartsWith(v, s_http) \/ StartsWith(v, s_https)

\* A slip: the generic images folder is probed before images/<subdir>.
CsvRootsGenericFirst(kind, subdir) ==
    << <<>>,
       IF kind = "dish" THEN IMG_ROOT_DISH ELSE IMG_ROOT_ATTR,
       <<s_images>>,
       PathJoin(<<s_images>>, subdir) >>

\* roots: Path("."), the verified root of the kind, images/<subdir>, images
CsvRoots(kind, subdir) ==
    << <<>>,
       IF kind = "dish" THEN IMG_ROOT_DISH ELSE IMG_ROOT_ATTR,
       PathJoin(<<s_images>>, subdir),
       <<s_images>> >>

\* A slip: the declared path is returned unchecked when no root holds it.
ResolveCsvPathUnchecked(env, v, kind, subdir) ==
    LET cands == [k \in 1..4 |-> PathJoin(CsvRoots(kind, subdir)[k], v)]
        h == FirstExisting(env, cands, 1, {})
    IN  IF h.t = "raise" THEN Raised(h.probes)
        ELSE IF h.t = "hit" THEN Ret(PathStr(cands[h.at]), h.probes)
        ELSE Ret(v, h.probes)

\* Step 2 for a value that is no URL: the first root under which it exists,
\* else None.
ResolveCsvPath(env, v, kind, subdir) ==
    LET cands == [k \in 1..4 |-> PathJoin(CsvRoots(kind, subdir)[k], v)]
        h == FirstExisting(env, cands, 1, {})
    IN  IF h.t = "raise" THEN Raised(h.probes)
        ELSE IF h.t = "hit" THEN Ret(PathStr(cands[h.at]), h.probes)
        ELSE RetNone(h.probes)

\* A slip: the _dish stems are built from the dish name.
StemCandidatesDishNamed(attraction, city, state, dish_name, kind) ==
    LET aN == _norm(attraction)
        cN == _norm(city)
        sN == _norm(state)
        dN == _norm(dish_name)
        base == <<aN \o <<"_">> \o cN \o <<"_">> \o sN, aN \o <<"_">> \o cN, aN>>
    IN  IF kind = "dish"
        THEN (IF Truthy(dish_name)
              THEN <<dN \o <<"_">> \o cN \o <<"_">> \o sN, dN \o <<"_">> \o cN, dN>>
              ELSE <<>>)
             \o base
             \o <<dN \o <<"_">> \o cN \o <<"_">> \o sN \o <<"_", "d", "i", "s", "h">>,
                  dN \o <<"_">> \o cN \o <<"_", "d", "i", "s", "h">>,
                  dN \o <<"_", "d", "i", "s", "h">>>>
        ELSE base

_stem_candidates(attraction, city, state, dish_name, kind) ==
    LET aN == _norm(attraction)
        cN == _norm(city)
        sN == _norm(state)
        dN == _norm(dish_name)
        base == <<aN \o <<"_">> \o cN \o <<"_">> \o sN, aN \o <<"_">> \o cN, aN>>
    IN  IF kind = "dish"
        THEN (IF Truthy(dish_name)
              THEN <<dN \o <<"_">> \o cN \o <<"_">> \o sN, dN \o <<"_">> \o cN, dN>>
              ELSE <<>>)
             \o base
             \o <<aN \o <<"_">> \o cN \o <<"_">> \o sN \o <<"_", "d", "i", "s", "h">>,
                  aN \o <<"_">> \o cN \o <<"_", "d", "i", "s", "h">>,
                  aN \o <<"_", "d", "i", "s", "h">>>>
        ELSE base

\* The stems of step 3: the hint, then the candidates.
StemsOf(a) ==
    (IF IsStr(a.local_base) /\ a.local_base.s # <<>> THEN <<a.local_base.s>> ELSE <<>>)
        \o _stem_candidates(a.attraction, a.city, a.state, a.dish, KindOf(a.subdir))

\* A slip: images/<subdir> is searched before the verified root.
LocalSearchSecondaryFirst(env, a) ==
    LET root == IF KindOf(a.subdir) = "dish" THEN IMG_ROOT_DISH ELSE IMG_ROOT_ATTR
        alt_root == PathJoin(<<s_images>>, a.subdir)
        hit == _find_in_folder_strict(env, alt_root, a.state, a.city, StemsOf(a), {})
    IN  IF hit.t # "None" THEN hit
        ELSE _find_in_folder_strict(env, root, a.state, a.city, StemsOf(a), hit.probes)

\* Step 3: the verified root of the kind, then images/<subdir>.
LocalSearch(env, a) ==
    LET root == IF KindOf(a.subdir) = "dish" THEN IMG_ROOT_DISH ELSE IMG_ROOT_ATTR
        alt_root == PathJoin(<<s_images>>, a.subdir)
        hit == _find_in_folder_strict(env, root, a.state, a.city, StemsOf(a), {})
    IN  IF hit.t # "None" THEN hit
        ELSE _find_in_folder_strict(env, alt_root, a.state, a.city, StemsOf(a), hit.probes)

\* The stems a call builds: those of step 3 when it gets there (lines 232-235),
\* none when step 1 or step 2 returns.
BuiltStems(a) ==
    IF NonNanText(OverrideUrl(a)) \/ CsvApplies(a.csv_val) THEN <<>> ELSE StemsOf(a)

resolve_image(env, a) ==
    IF NonNanText(OverrideUrl(a)) THEN Ret(Strip(OverrideUrl(a).s), {})
    ELSE IF CsvApplies(a.csv_val)
         THEN IF IsUrl(Strip(a.csv_val.s)) THEN Ret(Strip(a.csv_val.s), {})
              ELSE ResolveCsvPath(env, Strip(a.csv_val.s), KindOf(a.subdir), a.subdir)
    ELSE LocalSearch(env, a)

---------------------------------------------------------------------------
(* The calls and the files under study *)

s_a_jpg == <<"a", ".", "j", "p", "g">>
s_no_jpg == <<"n", "o", ".", "j", "p", "g">>
s_abs_a_jpg == <<"/", "a", ".", "j", "p", "g">>
s_Delhi == <<"D", "e", "l", "h", "i">>
s_Goa == <<"G", "o", "a">>
s_red_fort_jpg == <<"r", "e", "d", "_", "f", "o", "r", "t", ".", "j", "p", "g">>
s_redfort_main_jpg == <<"r", "e", "d", "f", "o", "r", "t", "_", "m", "a", "i", "n", ".", "j", "p", "g">>
s_old_red_fort_png == <<"o", "l", "d", "_", "r", "e", "d", "_", "f", "o", "r", "t", ".", "p", "n", "g">>
s_red_fort_delhi_jpeg == <<"r", "e", "d", "_", "f", "o", "r", "t", "_", "d", "e", "l", "h", "i", ".", "j", "p", "e", "g">>
s_chaat_webp == <<"c", "h", "a", "a", "t", ".", "w", "e", "b", "p">>
s_Red_Fort == <<"R", "e", "d", " ", "F", "o", "r", "t">>
s_Chaat == <<"C", "h", "a", "a", "t">>
s_img_base == <<"R", "e", "d", " ", "F", "o", "r", "t", "_", "D", "e", "l", "h", "i", "_", "D", "e", "l", "h", "i">>
s_url_u == <<"h", "t", "t", "p", ":", "/", "/", "u">>
s_url_u_ws == <<"h", "t", "t", "p", "s", ":", "/", "/", "u", " ", "\n">>
s_url_o == <<"h", "t", "t", "p", "s", ":", "/", "/", "o">>
s_url_o_ws == <<" ", "h", "t", "t", "p", "s", ":", "/", "/", "o">>
s_url_d == <<"h", "t", "t", "p", "s", ":", "/", "/", "d">>
s_NaN == <<"N", "a", "N">>
s_NaN_ws == <<" ", "N", "a", "N">>
\* A file name of 256 characters, one more than NAME_MAX.
s_long == [i \in 1..256 |-> "a"]

\* The files that may exist.
FileUniverse ==
    { <<s_a_jpg>>,
      <<s_images_verified, s_a_jpg>>,
      <<s_images, s_attractions, s_a_jpg>>,
      <<s_images, s_a_jpg>>,
      <<s_images_verified_dishes, s_a_jpg>>,
      <<s_images_verified, s_Delhi, s_Delhi, s_red_fort_jpg>>,
      <<s_images_verified, s_Delhi, s_redfort_main_jpg>>,
      <<s_images_verified, s_Delhi, s_old_red_fort_png>>,
      <<s_images_verified, s_Goa, s_red_fort_jpg>>,
      <<s_images, s_attractions, s_Delhi, s_red_fort_delhi_jpeg>>,
      <<s_images_verified_dishes, s_Delhi, s_chaat_webp>> }

\* The catalog rows the calls are made for, as show_card passes them: a row
\* with all its names, and a row whose cells are all empty (NaN).
RowDelhi ==
    [attraction |-> PStr(s_Red_Fort), city |-> PStr(s_Delhi), state |-> PStr(s_Delhi),
     dish |-> PStr(s_Chaat), local_base |-> PStr(s_img_base)]
RowEmpty ==
    [attraction |-> PNaN, city |-> PNaN, state |-> PNaN, dish |-> PNaN, local_base |-> PNaN]

CsvVals ==
    { PNaN, PNone, PStr(<<>>), PStr(<<" ">>), PStr(s_nan), PStr(s_NaN_ws),
      PStr(s_url_u), PStr(s_url_u_ws), PStr(s_a_jpg), PStr(s_no_jpg),
      PStr(s_abs_a_jpg), PStr(s_long) }

AttrOverrides ==
    { PNone, PNaN, PStr(<<>>), PStr(<<" ">>), PStr(s_nan), PStr(s_NaN),
      PStr(s_url_o), PStr(s_url_o_ws) }
DishOverrides == { PNone, PStr(s_url_d) }

MkArgs(csv, subdir, row, ovA, ovD) ==
    [csv_val |-> csv, subdir |-> subdir, attraction |-> row.attraction,
     city |-> row.city, state |-> row.state, local_base |-> row.local_base,
     dish |-> row.dish, overrides |-> [attr |-> ovA, dish |-> ovD]]

\* Every override of the attraction with a few CSV values, for both kinds; an
\* override of the dish alone likewise; and every CSV value, for both rows and
\* both kinds, without an override.
ArgSpace ==
    {MkArgs(csv, sd, RowDelhi, oa, PNone) :
        csv \in {PNaN, PStr(s_a_jpg), PStr(s_url_u)}, sd \in {s_attractions, s_dishes},
        oa \in AttrOverrides}
    \cup
    {MkArgs(csv, sd, RowDelhi, PNone, od) :
        csv \in {PNaN, PStr(s_a_jpg), PStr(s_url_u)}, sd \in {s_attractions, s_dishes},
        od \in DishOverrides}
    \cup
    {MkArgs(csv, sd, row, PNone, PNone) :
        csv \in CsvVals, sd \in {s_attractions, s_dishes}, row \in {RowDelhi, RowEmpty}}

\* Without a broken path, stat() can fail only on an over-long name, and only
\* the declared path can hold one: for every other call the two kinds of
\* Python behave alike.
StatCanFail(a) == IsStr(a.csv_val) /\ \E k \in 1..Len(ParsePath(a.csv_val.s)) : Len(ParsePath(a.csv_val.s)[k]) > 255

\* The orders in which a directory scan may list the files.
ScanOrders(files) ==
    {o \in [1..Cardinality(files) -> files] : \A i, j \in DOMAIN o : o[i] = o[j] => i = j}

Env(o) == [files |-> fs, broken |-> broken, order |-> o, propagate |-> raises]

\* Every outcome the call a has against the current filesystem.
PossibleResults(a) == {resolve_image(Env(o), a) : o \in ScanOrders(fs)}

---------------------------------------------------------------------------
(* The parts of the state a resolve_image call leaves alone *)

\* No fuzzy decision is under study.
MatchIdle == [stem |-> <<>>, name |-> <<>>, calls |-> 0, fwd |-> FALSE, bwd |-> FALSE]

\* The workers of the prefetch pool that the model runs.
Workers == 1..MaxWorkers

\* A worker that runs no call.
\* No bytes (no data yet, or the value None).
NoBytes == [kind |-> "none"]

\* A worker that runs no call.
IdleWorker ==
    [pc |-> "idle", url |-> PNone, w |-> 0, fmt |-> <<>>, q |-> 0, cand |-> 0, req |-> <<>>,
     data |-> NoBytes, ret |-> [t |-> "none", b |-> NoBytes], net |-> 0, resps |-> <<>>,
     wrote |-> FALSE, seen |-> NoBytes]

\* img_cache is empty and no worker runs.
FetchIdle ==
    /\ cache = <<>>
    /\ stored = <<>>
    /\ pool = [i \in Workers |-> IdleWorker]
    /\ nfetch = 0

\* No page of the app is under study.
PagesIdle ==
    /\ keys = <<>>
    /\ app = <<>>
    /\ explore = <<>>
    /\ quiz = <<>>

---------------------------------------------------------------------------
(* Actions *)

\* A file appears (an image is dropped into the tree).
AddFile(f) ==
    /\ f \notin fs
    /\ Cardinality(fs) < MaxFiles
    /\ f \notin Dirs(fs)
    /\ \A k \in 1..(Len(f) - 1) : SubSeq(f, 1, k) \notin fs
    /\ fs' = fs \cup {f}
    /\ result' = NoCall
    /\ call_stems' = <<>>
    /\ UNCHANGED <<broken, raises, args, norm, match, fetchVars, pageVars>>

\* show_card / show_detail call resolve_image for the row.
ResolveImage ==
    /\ \E o \in ScanOrders(fs) : result' = resolve_image(Env(o), args)
    /\ call_stems' = BuiltStems(args)
    /\ UNCHANGED <<fs, broken, raises, args, norm, match, fetchVars, pageVars>>

\* stat() of p starts to fail (permission denied, I/O error).
BreakPath(p) ==
    /\ broken = {}
    /\ broken' = {p}
    /\ result' = NoCall
    /\ call_stems' = <<>>
    /\ UNCHANGED <<fs, raises, args, norm, match, fetchVars, pageVars>>

\* stat() of p works again.
RepairPath(p) ==
    /\ p \in broken
    /\ broken' = broken \ {p}
    /\ result' = NoCall
    /\ call_stems' = <<>>
    /\ UNCHANGED <<fs, raises, args, norm, match, fetchVars, pageVars>>

Init ==
    /\ fs = {}
    /\ broken = {}
    /\ args \in ArgSpace
    /\ raises \in (IF StatCanFail(args) THEN BOOLEAN ELSE {TRUE})
    /\ result = NoCall
    /\ call_stems = <<>>
    /\ norm = NormIdle
    /\ match = MatchIdle
    /\ FetchIdle
    /\ PagesIdle

Next ==
    \/ \E f \in FileUniverse : AddFile(f)
    \/ ResolveImage

Spec == Init /\ [][Next]_vars

\* The calls made while stat() may fail, and the paths it may fail on: the
\* declared path under the cwd, the verified root, the state folder and an
\* image in it.
FaultyArgSpace ==
    {MkArgs(csv, s_attractions, RowDelhi, PNone, PNone) : csv \in {PNaN, PStr(s_a_jpg)}}

BreakablePaths ==
    { <<s_a_jpg>>,
      IMG_ROOT_ATTR,
      <<s_images_verified, s_Delhi>>,
      <<s_images_verified, s_Delhi, s_redfort_main_jpg>> }

InitFaulty ==
    /\ fs = {}
    /\ broken = {}
    /\ raises \in BOOLEAN
    /\ args \in FaultyArgSpace
    /\ result = NoCall
    /\ call_stems = <<>>
    /\ norm = NormIdle
    /\ match = MatchIdle
    /\ FetchIdle
    /\ PagesIdle

NextFaulty ==
    \/ \E f \in FileUniverse : AddFile(f)
    \/ ResolveImage
    \/ \E p \in BreakablePaths : BreakPath(p)
    \/ \E p \in BreakablePaths : RepairPath(p)

SpecFaulty == InitFaulty /\ [][NextFaulty]_vars

---------------------------------------------------------------------------
(* The local search (step 3) under study: rows without a CSV image and     *)
(* without an override, against the trees of the image roots               *)

s_D_N_raw == <<"D", ".", " ", "N">>
s_D_N_underscored == <<"D", ".", "_", "N">>
s_D_N_stripped == <<"D", "_", "N">>
s_red_fort_jpeg == <<"r", "e", "d", "_", "f", "o", "r", "t", ".", "j", "p", "e", "g">>
s_red_fort_delhi_png == <<"r", "e", "d", "_", "f", "o", "r", "t", "_", "d", "e", "l", "h", "i", ".", "p", "n", "g">>
s_red_fort_txt == <<"r", "e", "d", "_", "f", "o", "r", "t", ".", "t", "x", "t">>
s_red_fort_dish_jpg == <<"r", "e", "d", "_", "f", "o", "r", "t", "_", "d", "i", "s", "h", ".", "j", "p", "g">>
s_chaat_jpg == <<"c", "h", "a", "a", "t", ".", "j", "p", "g">>
s_img_base_dish == <<"R", "e", "d", " ", "F", "o", "r", "t", "_", "D", "e", "l", "h", "i", "_", "D", "e", "l", "h", "i", "_", "d", "i", "s", "h">>

\* Images in the city and the state folder of Delhi under the verified root
\* (exact and fuzzy names, a later extension, an earlier stem, a text file),
\* under another state, under the secondary root, under each spelling of the
\* state "D. N" and of the city "D. N" inside it, a regular file named as
\* that state, and dish images under the two dish roots.
LocalFiles ==
    { <<s_images_verified, s_Delhi, s_Delhi, s_red_fort_jpg>>,
      <<s_images_verified, s_Delhi, s_Delhi, s_redfort_main_jpg>>,
      <<s_images_verified, s_Delhi, s_red_fort_jpg>>,
      <<s_images_verified, s_Delhi, s_red_fort_jpeg>>,
      <<s_images_verified, s_Delhi, s_red_fort_delhi_png>>,
      <<s_images_verified, s_Delhi, s_redfort_main_jpg>>,
      <<s_images_verified, s_Delhi, s_red_fort_txt>>,
      <<s_images_verified, s_Goa, s_red_fort_jpg>>,
      <<s_images, s_attractions, s_Delhi, s_red_fort_jpg>>,
      <<s_images_verified, s_D_N_raw, s_red_fort_jpg>>,
      <<s_images_verified, s_D_N_underscored, s_red_fort_jpg>>,
      <<s_images_verified, s_D_N_stripped, s_red_fort_jpg>>,
      <<s_images_verified, s_D_N_stripped, s_D_N_underscored, s_red_fort_jpg>>,
      <<s_images_verified, s_D_N_stripped, s_D_N_stripped, s_red_fort_jpg>>,
      <<s_images_verified, s_D_N_raw>>,
      <<s_images_verified_dishes, s_Delhi, s_chaat_webp>>,
      <<s_images_verified_dishes, s_Delhi, s_red_fort_dish_jpg>>,
      <<s_images, s_dishes, s_Delhi, s_chaat_jpg>> }

\* The rows: Delhi in Delhi, a row whose state and city need their other
\* spellings, a row whose State cell is the empty string, a row of NaN cells.
RowDN ==
    [attraction |-> PStr(s_Red_Fort), city |-> PStr(s_D_N_raw), state |-> PStr(s_D_N_raw),
     dish |-> PStr(s_Chaat), local_base |-> PStr(<<>>)]
RowNoState ==
    [attraction |-> PStr(s_Red_Fort), city |-> PStr(s_Delhi), state |-> PStr(<<>>),
     dish |-> PStr(<<>>), local_base |-> PStr(<<>>)]

\* show_card's two calls: the attraction image with the hint _img_base, the
\* dish image with the hint _img_base + "_dish" and the dish name.
LocalArgSpace ==
    {MkArgs(PNaN, s_attractions, row, PNone, PNone) : row \in {RowDelhi, RowDN, RowNoState, RowEmpty}}
    \cup
    {MkArgs(PNaN, s_dishes, [row EXCEPT !.local_base = PStr(s_img_base_dish)], PNone, PNone) :
        row \in {RowDelhi, [RowDelhi EXCEPT !.dish = PStr(<<>>)], [RowDelhi EXCEPT !.dish = PNaN]}}

InitLocal ==
    /\ fs = {}
    /\ broken = {}
    /\ raises = TRUE
    /\ args \in LocalArgSpace
    /\ result = NoCall
    /\ call_stems = <<>>
    /\ norm = NormIdle
    /\ match = MatchIdle
    /\ FetchIdle
    /\ PagesIdle

NextLocal ==
    \/ \E f \in LocalFiles : AddFile(f)
    \/ ResolveImage

SpecLocal == InitLocal /\ [][NextLocal]_vars

---------------------------------------------------------------------------
(* The _norm round trip *)

\* The characters the round trip's inputs are drawn from: a lower-case and an
\* upper-case letter, a digit, the underscore, a blank and a punctuation mark.
NormAlphabet == {"a", "B", "1", "_", " ", "-"}

NormInputs == UNION {[1..n -> NormAlphabet] : n \in 0..MaxLen}

\* stem = _norm(s)
NormOnce ==
    /\ norm.calls = 0
    /\ norm' = [norm EXCEPT !.once = _norm(PStr(norm.s)), !.calls = 1]
    /\ UNCHANGED <<fs, broken, raises, args, result, call_stems, match, fetchVars, pageVars>>

\* _norm(stem): _find_in_folder_strict normalizes the stems again
NormTwice ==
    /\ norm.calls = 1
    /\ norm' = [norm EXCEPT !.twice = _norm(PStr(norm.once)), !.calls = 2]
    /\ UNCHANGED <<fs, broken, raises, args, result, call_stems, match, fetchVars, pageVars>>

InitNorm ==
    /\ fs = {}
    /\ broken = {}
    /\ raises = TRUE
    /\ args = PNone
    /\ result = NoCall
    /\ call_stems = <<>>
    /\ norm \in {[NormIdle EXCEPT !.s = s] : s \in NormInputs}
    /\ match = MatchIdle
    /\ FetchIdle
    /\ PagesIdle

NextNorm == NormOnce \/ NormTwice

SpecNorm == InitNorm /\ [][NextNorm]_vars

---------------------------------------------------------------------------
(* The fuzzy decision of _loose_in, one stem against one file *)

s_temple == <<"t", "e", "m", "p", "l", "e">>
s_fort == <<"f", "o", "r", "t">>
s_the == <<"t", "h", "e">>
s_red_fort == <<"r", "e", "d", "_", "f", "o", "r", "t">>
s_redfort_main == <<"r", "e", "d", "f", "o", "r", "t", "_", "m", "a", "i", "n">>
s_red_fort_delhi == <<"r", "e", "d", "_", "f", "o", "r", "t", "_", "d", "e", "l", "h", "i">>
s_red_fort_delhi_delhi == <<"r", "e", "d", "_", "f", "o", "r", "t", "_", "d", "e", "l", "h", "i", "_", "d", "e", "l", "h", "i">>
s_taj_mahal == <<"t", "a", "j", "_", "m", "a", "h", "a", "l">>
s_Old_Taj_Mahal == <<"O", "l", "d", " ", "T", "a", "j", " ", "M", "a", "h", "a", "l">>
s_mahal_taj == <<"m", "a", "h", "a", "l", "-", "t", "a", "j">>
s_agra_fort == <<"a", "g", "r", "a", "_", "f", "o", "r", "t">>

\* The names the decision is studied on, each both as a candidate stem and as
\* the stem of an image file: stop words, the stems of a row, names that
\* share tokens or letters with them, and names that _norm empties.
MatchNames ==
    { s_temple, s_fort, s_the, s_red_fort, s_redfort_main, s_red_fort_delhi,
      s_red_fort_delhi_delhi, s_taj_mahal, s_Old_Taj_Mahal, s_mahal_taj,
      s_agra_fort, <<"_">>, <<"-", "-">> }

\* The state folder the decision is made in.
MatchFolder == <<s_images_verified, s_Delhi>>

\* _loose_in(folder) returns the file folder/<name>.jpg, the only file of the
\* folder, for the one candidate stem (lines 148-150 and 162-173).
LooseDecision(stem, name) ==
    _loose_in([files |-> {MatchFolder \o <<name \o IMG_EXTS[1]>>}, broken |-> {},
               order |-> <<MatchFolder \o <<name \o IMG_EXTS[1]>>>>, propagate |-> TRUE],
              MatchFolder, <<_tokset(stem)>>, <<RemoveChar(_norm(PStr(stem)), "_")>>, {}).t = "str"

\* The scan meets the file match.name with the candidate stem match.stem.
MatchForward ==
    /\ match.calls = 0
    /\ match' = [match EXCEPT !.fwd = LooseDecision(match.stem, match.name), !.calls = 1]
    /\ UNCHANGED <<fs, broken, raises, args, result, call_stems, norm, fetchVars, pageVars>>

\* The roles swapped: the scan meets the file match.stem with the candidate
\* stem match.name.
MatchBackward ==
    /\ match.calls = 1
    /\ match' = [match EXCEPT !.bwd = LooseDecision(match.name, match.stem), !.calls = 2]
    /\ UNCHANGED <<fs, broken, raises, args, result, call_stems, norm, fetchVars, pageVars>>

InitMatch ==
    /\ fs = {}
    /\ broken = {}
    /\ raises = TRUE
    /\ args = PNone
    /\ result = NoCall
    /\ call_stems = <<>>
    /\ norm = NormIdle
    /\ match \in {[MatchIdle EXCEPT !.stem = a, !.name = b] : a \in MatchNames, b \in MatchNames}
    /\ FetchIdle
    /\ PagesIdle

NextMatch == MatchForward \/ MatchBackward

SpecMatch == InitMatch /\ [][NextMatch]_vars

---------------------------------------------------------------------------
(* pages/2_Explore.py: the network image cache.  Bytes are records: the    *)
(* content a server sent, an image re-encoded for a width, a format and a  *)
(* quality, or the empty content of a file that was just opened for        *)
(* writing.  hashlib.sha1(...).hexdigest() is kept as the text it digests: *)
(* two digests are equal exactly when the texts are (no SHA-1 collision).  *)

s_drive == <<"d", "r", "i", "v", "e", ".", "g", "o", "o", "g", "l", "e", ".", "c", "o", "m">>
s_slash_d == <<"/", "d", "/">>
s_id_eq == <<"i", "d", "=">>
s_uc_prefix == <<"h", "t", "t", "p", "s", ":", "/", "/", "d", "r", "i", "v", "e", ".", "g", "o", "o", "g", "l", "e", ".", "c", "o", "m", "/", "u", "c", "?", "e", "x", "p", "o", "r", "t", "=", "v", "i", "e", "w", "&", "i", "d", "=">>
s_thumb_prefix == <<"h", "t", "t", "p", "s", ":", "/", "/", "d", "r", "i", "v", "e", ".", "g", "o", "o", "g", "l", "e", ".", "c", "o", "m", "/", "t", "h", "u", "m", "b", "n", "a", "i", "l", "?", "i", "d", "=">>
s_sz == <<"&", "s", "z", "=", "w">>
s_image == <<"i", "m", "a", "g", "e">>

\* CACHE_DIR = "img_cache"
CACHE_DIR == <<"i", "m", "g", "_", "c", "a", "c", "h", "e">>

\* [a-zA-Z0-9_-]
IdChars ==
    Range(LowerChars) \cup Range(UpperChars) \cup Range(DigitChars) \cup {"_", "-"}

\* Where ID_RE = (?:/d/|id=)([a-zA-Z0-9_-]+) can match in url.
IdStarts(url) ==
    {p \in 1..(Len(url) - 3) :
        /\ SubSeq(url, p, p + 2) \in {s_slash_d, s_id_eq}
        /\ url[p + 3] \in IdChars}

\* extract_file_id: group 1 of the leftmost match, "" without one.
extract_file_id(url) ==
    IF ~IsStr(url) \/ ~Contains(url.s, s_drive) THEN <<>>
    ELSE IF IdStarts(url.s) = {} THEN <<>>
    ELSE LET p == CHOOSE p \in IdStarts(url.s) : \A r \in IdStarts(url.s) : p <= r
             last == CHOOSE e \in (p + 3)..Len(url.s) :
                        /\ \A k \in (p + 3)..e : url.s[k] \in IdChars
                        /\ e = Len(url.s) \/ url.s[e + 1] \notin IdChars
         IN  SubSeq(url.s, p + 3, last)

\* f"{n}" for an int n >= 0
RECURSIVE IntStr(_)
IntStr(n) ==
    IF n < 10 THEN <<DigitChars[n + 1]>>
    ELSE IntStr(n \div 10) \o <<DigitChars[(n % 10) + 1]>>

\* str.upper()
Upper(s) ==
    [i \in 1..Len(s) |->
        IF \E k \in 1..26 : LowerChars[k] = s[i]
        THEN UpperChars[CHOOSE k \in 1..26 : LowerChars[k] = s[i]]
        ELSE s[i]]

\* candidate_urls(file_id, size)
candidate_urls(file_id, size) ==
    << s_uc_prefix \o file_id,
       s_thumb_prefix \o file_id \o s_sz \o IntStr(size) >>

\* cache_key: os.path.join(CACHE_DIR, f"{h}.{fmt.lower()}") with
\* h = sha1(f"{url}|{target_w}|{fmt}").  The quality of the call is no part
\* of it.
cache_key(url, target_w, fmt) ==
    << CACHE_DIR,
       [sha1 |-> url \o <<"|">> \o IntStr(target_w) \o <<"|">> \o fmt, ext |-> Lower(fmt)] >>

\* The bytes a server sent, and an image re-encoded by lines 104-108.
Raw(c) == [kind |-> "raw", c |-> c]
Encoded(c, target_w, fmt, quality) ==
    [kind |-> "enc", c |-> c, w |-> target_w, fmt |-> Upper(fmt), q |-> quality]
\* The content of a file that open(ck, "wb") has just created or truncated.
EmptyBytes == [kind |-> "empty"]

\* What sess.get(u, timeout=10) may do: raise (timeout, connection error),
\* or answer with a status, a Content-Type and a body that PIL can decode
\* or not.
Responses ==
    { [exc |-> TRUE, status |-> 0, ctype |-> <<>>, content |-> "", decodes |-> FALSE],
      [exc |-> FALSE, status |-> 200, ctype |-> <<"i", "m", "a", "g", "e", "/", "j", "p", "e", "g">>, content |-> "jpeg", decodes |-> TRUE],
      [exc |-> FALSE, status |-> 200, ctype |-> <<"i", "m", "a", "g", "e", "/", "x">>, content |-> "junk", decodes |-> FALSE],
      [exc |-> FALSE, status |-> 200, ctype |-> <<"t", "e", "x", "t", "/", "h", "t", "m", "l">>, content |-> "html", decodes |-> FALSE],
      [exc |-> FALSE, status |-> 404, ctype |-> <<"i", "m", "a", "g", "e", "/", "j", "p", "e", "g">>, content |-> "none", decodes |-> FALSE] }

\* A slip: the Content-Type is not looked at.
ResponseOkAnyType(r) == ~r.exc /\ r.status = 200

\* r.status_code == 200 and "image" in r.headers.get("Content-Type","")
ResponseOk(r) == ~r.exc /\ r.status = 200 /\ Contains(r.ctype, s_image)

\* Lines 103-110: the re-encoded image, or the body as it came when PIL
\* raises.
Processed(r, target_w, fmt, quality) ==
    IF r.decodes THEN Encoded(r.content, target_w, fmt, quality) ELSE Raw(r.content)

\* The links of a page: two Drive links, a link to another host, a Drive link without a file id, an empty cell.
s_url_A == <<"h", "t", "t", "p", "s", ":", "/", "/", "d", "r", "i", "v", "e", ".", "g", "o", "o", "g", "l", "e", ".", "c", "o", "m", "/", "f", "i", "l", "e", "/", "d", "/", "A", "/", "v", "i", "e", "w">>
s_url_B == <<"h", "t", "t", "p", "s", ":", "/", "/", "d", "r", "i", "v", "e", ".", "g", "o", "o", "g", "l", "e", ".", "c", "o", "m", "/", "o", "p", "e", "n", "?", "i", "d", "=", "B">>
s_url_elsewhere == <<"h", "t", "t", "p", "s", ":", "/", "/", "x", ".", "o", "r", "g", "/", "d", "/", "A">>
s_url_folder == <<"h", "t", "t", "p", "s", ":", "/", "/", "d", "r", "i", "v", "e", ".", "g", "o", "o", "g", "l", "e", ".", "c", "o", "m", "/", "d", "r", "i", "v", "e">>
s_WEBP == <<"W", "E", "B", "P">>
s_webp == <<"w", "e", "b", "p">>

\* The call of the prefetch, get_image_bytes(u, 560, "WEBP", 70).
PrefetchCall(u) == [url |-> PStr(u), w |-> 560, fmt |-> s_WEBP, q |-> 70]

\* The calls under study: the prefetch of each link, and for one link calls
\* that differ from its prefetch in the quality, the width or the format.
FetchCalls ==
    {PrefetchCall(u) : u \in {s_url_A, s_url_B, s_url_elsewhere, s_url_folder, <<>>}}
    \cup
    { [PrefetchCall(s_url_A) EXCEPT !.q = 75],
      [PrefetchCall(s_url_A) EXCEPT !.w = 56],
      [PrefetchCall(s_url_A) EXCEPT !.fmt = s_webp] }

\* ck of the call a worker runs (line 92).
CacheFile(c) == cache_key(PyStr(c.url), c.w, c.fmt)

\* The cache with the file ck holding the bytes b.
CacheWith(files, ck, b) == [k \in DOMAIN files \cup {ck} |-> IF k = ck THEN b ELSE files[k]]

\* ex.submit(get_image_bytes, u, ...): a free worker starts fetch_and_process
\* and runs it up to its first network request (lines 88-98): None for a link
\* without a Drive file id, the bytes of the cache file when it exists.
Submit(i, c) ==
    /\ pool[i].pc = "idle"
    /\ nfetch < MaxFetches
    /\ nfetch' = nfetch + 1
    /\ LET started == [IdleWorker EXCEPT !.url = c.url, !.w = c.w, !.fmt = c.fmt, !.q = c.q,
                          !.seen = IF CacheFile(c) \in DOMAIN stored
                                   THEN stored[CacheFile(c)] ELSE NoBytes]
       IN  pool' = [pool EXCEPT ![i] =
                IF ~Truthy(c.url) \/ extract_file_id(c.url) = <<>>
                THEN [started EXCEPT !.pc = "done", !.ret = [t |-> "None", b |-> NoBytes]]
                ELSE IF CacheFile(c) \in DOMAIN cache
                THEN [started EXCEPT !.pc = "done",
                                     !.ret = [t |-> "bytes", b |-> cache[CacheFile(c)]]]
                ELSE [started EXCEPT !.pc = "get", !.cand = 1]]
    /\ UNCHANGED <<cache, stored, fs, broken, raises, args, result, call_stems, norm, match, pageVars>>

\* sess.get(u, timeout=10) for the candidate URL in turn, and lines 102-110
\* and 115-117 on its outcome r.
Get(i, r) ==
    /\ pool[i].pc = "get"
    /\ LET urls == candidate_urls(extract_file_id(pool[i].url),
                                  IF pool[i].w > 480 THEN pool[i].w ELSE 480)
           asked == [pool[i] EXCEPT !.net = @ + 1, !.req = urls[pool[i].cand], !.resps = Append(@, r)]
       IN  pool' = [pool EXCEPT ![i] =
                IF ResponseOk(r)
                THEN [asked EXCEPT !.pc = "open",
                         !.data = Processed(r, pool[i].w, pool[i].fmt, pool[i].q)]
                ELSE IF pool[i].cand < Len(urls)
                THEN [asked EXCEPT !.cand = @ + 1]
                ELSE [asked EXCEPT !.pc = "done", !.ret = [t |-> "None", b |-> NoBytes]]]
    /\ UNCHANGED <<cache, stored, nfetch, fs, broken, raises, args, result, call_stems, norm, match, pageVars>>

\* open(ck, "wb") (line 112): the cache file is created, or truncated, and is
\* empty until the data is written.
OpenCache(i) ==
    /\ pool[i].pc = "open"
    /\ cache' = CacheWith(cache, CacheFile(pool[i]), EmptyBytes)
    /\ pool' = [pool EXCEPT ![i].pc = "write", ![i].wrote = TRUE]
    /\ UNCHANGED <<stored, nfetch, fs, broken, raises, args, result, call_stems, norm, match, pageVars>>

\* f.write(data), the file is closed, return data (lines 112-114).
WriteCache(i) ==
    /\ pool[i].pc = "write"
    /\ cache' = CacheWith(cache, CacheFile(pool[i]), pool[i].data)
    /\ stored' = CacheWith(stored, CacheFile(pool[i]), pool[i].data)
    /\ pool' = [pool EXCEPT ![i].pc = "done", ![i].ret = [t |-> "bytes", b |-> pool[i].data]]
    /\ UNCHANGED <<nfetch, fs, broken, raises, args, result, call_stems, norm, match, pageVars>>

\* as_completed(futures) yields the future: the worker is free again.
Collect(i) ==
    /\ pool[i].pc = "done"
    /\ pool' = [pool EXCEPT ![i] = IdleWorker]
    /\ UNCHANGED <<cache, stored, nfetch, fs, broken, raises, args, result, call_stems, norm, match, pageVars>>

InitFetch ==
    /\ fs = {}
    /\ broken = {}
    /\ raises = TRUE
    /\ args = PNone
    /\ result = NoCall
    /\ call_stems = <<>>
    /\ norm = NormIdle
    /\ match = MatchIdle
    /\ FetchIdle
    /\ PagesIdle

NextFetch ==
    \/ \E i \in Workers, c \in FetchCalls : Submit(i, c)
    \/ \E i \in Workers, r \in Responses : Get(i, r)
    \/ \E i \in Workers : OpenCache(i)
    \/ \E i \in Workers : WriteCache(i)
    \/ \E i \in Workers : Collect(i)

SpecFetch == InitFetch /\ [][NextFetch]_vars

---------------------------------------------------------------------------
(* The row identity key _id, as app.py's normalize_df and as                *)
(* pages/2_Explore.py's load_data build it                                  *)

\* re.sub(r"\s+", " ", str(s)).strip()
clean_text(s) == Strip(ReSubRuns(PyStr(s), Whitespace, <<" ">>))

\* One character of str.casefold(): as str.lower(), but the sharp s becomes ss.
CaseFoldChar(c) == IF c = "ß" THEN <<"s", "s">> ELSE <<ToLower(c)>>

\* str.casefold()
CaseFold(s) == Join([i \in 1..Len(s) |-> CaseFoldChar(s[i])], <<>>)

\* clean_text(s).casefold()
keyfy(s) == CaseFold(clean_text(s))

\* normalize_df: the columns are mapped through clean_text, then
\* _id = keyfy(attraction) + "|" + keyfy(city) + "|" + keyfy(state).
normalize_df_id(row) ==
    LET cleaned == [c \in {"attraction", "city", "state"} |-> PStr(clean_text(PStr(row[c])))]
    IN  keyfy(cleaned.attraction) \o <<"|">> \o keyfy(cleaned.city) \o <<"|">> \o keyfy(cleaned.state)

\* load_data: _id = (attraction + "|" + city + "|" + state).str.lower()
load_data_id(row) ==
    Lower(row.attraction \o <<"|">> \o row.city \o <<"|">> \o row.state)

\* Catalog cells: a name in two cases, with a doubled and a trailing blank,
\* with the separator inside, with a sharp s.
KeyAttractions ==
    { <<"T", "a", "j">>, <<"t", "a", "j">>, <<"T", "a", "j", " ">>, <<"a", " ", " ", "b">>,
      <<"a", " ", "b">>, <<"a", "|", "b">>, <<"a">>, <<"ß">>, <<"S", "S">> }
KeyCities == { <<"c">>, <<"C">>, <<"b", "|", "c">>, <<>> }
KeyStates == { <<"s">>, <<"s", "\t">> }
KeyRows == [attraction : KeyAttractions, city : KeyCities, state : KeyStates]

KeysIdle(a, b) == [a |-> a, b |-> b, loaded |-> FALSE, app_id |-> <<>>, page_id |-> <<>>]

\* Both loaders read the catalog and give each row its _id.
LoadCatalog ==
    /\ ~keys.loaded
    /\ keys' = [keys EXCEPT !.loaded = TRUE,
                            !.app_id = <<normalize_df_id(keys.a), normalize_df_id(keys.b)>>,
                            !.page_id = <<load_data_id(keys.a), load_data_id(keys.b)>>]
    /\ UNCHANGED <<fs, broken, raises, args, result, call_stems, norm, match, fetchVars,
                   app, explore, quiz>>

InitKey ==
    /\ fs = {}
    /\ broken = {}
    /\ raises = TRUE
    /\ args = PNone
    /\ result = NoCall
    /\ call_stems = <<>>
    /\ norm = NormIdle
    /\ match = MatchIdle
    /\ FetchIdle
    /\ \E a, b \in KeyRows : keys = KeysIdle(a, b)
    /\ app = <<>>
    /\ explore = <<>>
    /\ quiz = <<>>

NextKey == LoadCatalog

SpecKey == InitKey /\ [][NextKey]_vars

---------------------------------------------------------------------------
(* app.py's Explore page: the pickers, the filters, the results grid and   *)
(* the detail view, one script run per user event                          *)

s_UP == <<"U", "P">>
s_Agra == <<"A", "g", "r", "a">>
s_Taj == <<"T", "a", "j">>
s_Fort_A == <<"F", "o", "r", "t", " ", "A">>
s_Fort == <<"F", "o", "r", "t">>
s_Tomb == <<"T", "o", "m", "b">>
s_Museum == <<"M", "u", "s", "e", "u", "m">>

\* The catalog as read from the CSV: the Red Fort of Delhi listed twice (two
\* pairings, the second rated higher), the Taj of Agra, a fort of Goa.
Catalog ==
    << [region |-> "North", state |-> PStr(s_Delhi), city |-> PStr(s_Delhi), attraction |-> PStr(s_Red_Fort),
        type |-> PStr(s_Fort), dish |-> PNaN, rating |-> 3],
       [region |-> "North", state |-> PStr(s_Delhi), city |-> PStr(s_Delhi), attraction |-> PStr(s_Red_Fort),
        type |-> PStr(s_Museum), dish |-> PStr(s_Chaat), rating |-> 4],
       [region |-> "North", state |-> PStr(s_UP), city |-> PStr(s_Agra), attraction |-> PStr(s_Taj),
        type |-> PStr(s_Tomb), dish |-> PStr(s_Chaat), rating |-> 5],
       [region |-> "West", state |-> PStr(s_Goa), city |-> PStr(s_Goa), attraction |-> PStr(s_Fort_A),
        type |-> PStr(s_Fort), dish |-> PNaN, rating |-> 3] >>

\* normalize_df: the text columns go through clean_text (an empty cell, NaN,
\* becomes the text "nan"), and each row gets its _id.
normalize_df(df) ==
    [i \in DOMAIN df |->
        LET row == [state |-> clean_text(df[i].state), city |-> clean_text(df[i].city),
                    attraction |-> clean_text(df[i].attraction)]
        IN  [region |-> df[i].region, state |-> row.state, city |-> row.city,
             attraction |-> row.attraction, type |-> clean_text(df[i].type),
             dish |-> clean_text(df[i].dish), rating |-> df[i].rating,
             _id |-> normalize_df_id(row)]]

DF == normalize_df(Catalog)

\* A key that st.session_state or st.query_params does not hold.
Absent == [t |-> "absent", s |-> <<>>]

\* df.sort_values(sort_cols, ascending=False): the rows of S by falling
\* rating, rows of equal rating in catalog order.
SortValues(frame, S) ==
    [k \in 1..Cardinality(S) |->
        CHOOSE i \in S :
            Cardinality({j \in S : frame[j].rating > frame[i].rating
                                     \/ (frame[j].rating = frame[i].rating /\ j < i)}) = k - 1]

\* A slip: the detail view takes the last row with the selected _id.
DetailRowLast(frame, df_show, selected_id) ==
    LET hits == {k \in 1..Len(df_show) : PStr(frame[df_show[k]]._id) = selected_id}
        all == {i \in DOMAIN frame : PStr(frame[i]._id) = selected_id}
    IN  IF hits # {} THEN df_show[SetMax(hits)]
        ELSE IF all # {} THEN SetMax(all)
        ELSE 0

\* Lines 620-624: row = df_show.loc[df_show["_id"] == selected_id], or, when
\* that is empty, DF.loc[DF["_id"] == selected_id]; row.iloc[0].  0: no row.
DetailRow(frame, df_show, selected_id) ==
    LET hits == {k \in 1..Len(df_show) : PStr(frame[df_show[k]]._id) = selected_id}
        all == {i \in DOMAIN frame : PStr(frame[i]._id) = selected_id}
    IN  IF hits # {} THEN df_show[CHOOSE k \in hits : \A n \in hits : k <= n]
        ELSE IF all # {} THEN CHOOSE i \in all : \A n \in all : i <= n
        ELSE 0

\* A slip: the id query parameter is left as it is.
BackResetKeepsParam(r) ==
    [r EXCEPT !.back_to_results = FALSE, !.selected_id = PNone, !.rerun = TRUE]

\* Lines 626-633: back_to_results is taken back, the selection and the id
\* query parameter are cleared, and the script is run again.
BackReset(r) ==
    [r EXCEPT !.back_to_results = FALSE, !.selected_id = PNone, !.id = PStr(<<>>),
              !.rerun = TRUE]

\* No button was pressed in this run.
NoPress == [kind |-> "none", card |-> 0]

\* One run of the script's Explore branch (lines 505-643) on the session s,
\* with the button the user pressed, if any.  The pickers are built first;
\* the results follow when the filters were submitted.
ExplorePage(s, pressed) ==
    LET region == s.region
        df_r == {i \in DOMAIN s.DF : region = "All" \/ s.DF[i].region = region}
        state_opts == {s.DF[i].state : i \in df_r}
        sel_states == s.sel_states \cap state_opts
        df_s == {i \in df_r : sel_states = {} \/ s.DF[i].state \in sel_states}
        city_opts == {s.DF[i].city : i \in df_s}
        sel_cities == s.sel_cities \cap city_opts
        submitted == s.filters_submitted \/ pressed.kind = "show" \/ s.auto_show
        df == {i \in df_r :
                /\ sel_states = {} \/ s.DF[i].state \in sel_states
                /\ sel_cities = {} \/ s.DF[i].city \in sel_cities
                /\ s.selected_types = {}
                   \/ \E t \in s.selected_types : Contains(CaseFold(s.DF[i].type), CaseFold(t))
                /\ Strip(s.q) = <<>> \/ Contains(CaseFold(s.DF[i].attraction), CaseFold(Strip(s.q)))
                /\ ~s.only_with_dish \/ Len(s.DF[i].dish) > 0}
        df_show == SortValues(s.DF, df)
        raw_id == IF s.id = Absent THEN PNone ELSE s.id
        selected_id == IF s.selected_id = Absent THEN raw_id
                       ELSE IF Truthy(raw_id) /\ s.selected_id # raw_id THEN raw_id
                       ELSE s.selected_id
        row == DetailRow(s.DF, df_show, selected_id)
        built == [s EXCEPT !.sel_states = sel_states, !.sel_cities = sel_cities,
                           !.state_opts = state_opts, !.city_opts = city_opts,
                           !.filters_submitted = submitted,
                           !.view = "info", !.df_show = <<>>, !.shown = 0, !.cards = <<>>,
                           !.rerun = FALSE]
        results == [built EXCEPT !.df_show = df_show]
    IN  IF ~submitted THEN built
        ELSE IF df = {} THEN [built EXCEPT !.view = "empty"]
        ELSE IF Truthy(selected_id)
        THEN IF row = 0
             THEN [results EXCEPT !.view = "missing", !.selected_id = selected_id]
             ELSE IF s.back_to_results \/ pressed.kind = "back"
             THEN BackReset([results EXCEPT !.view = "detail", !.shown = row])
             ELSE [results EXCEPT !.view = "detail", !.shown = row, !.selected_id = selected_id]
        ELSE LET cards == SubSeq(df_show, 1, IF Len(df_show) < 18 THEN Len(df_show) ELSE 18)
             IN  IF pressed.kind = "view"
                 THEN [results EXCEPT !.view = "grid", !.cards = cards,
                                    !.selected_id = PStr(s.DF[cards[pressed.card]]._id),
                                    !.id = PStr(s.DF[cards[pressed.card]]._id), !.rerun = TRUE]
                 ELSE [results EXCEPT !.view = "grid", !.cards = cards, !.selected_id = selected_id]

\* What the user can put into the unkeyed widgets.
TypeChoices == {{}, {s_Museum}, {s_Fort}}
KeywordChoices == {<<>>, <<"f", "o", "r", "t">>}

\* The browser opens the page: an empty session, the id of the link if any.
\* DF: the frame the script built when it started (lines 471-473), which
\* every run reads.
FreshSession(id) ==
    [DF |-> DF,
     region |-> "All", sel_states |-> {}, sel_cities |-> {}, filters_submitted |-> FALSE,
     auto_show |-> FALSE, selected_id |-> Absent, back_to_results |-> FALSE, id |-> id,
     selected_types |-> {}, q |-> <<>>, only_with_dish |-> FALSE,
     state_opts |-> {}, city_opts |-> {}, view |-> "info", df_show |-> <<>>, shown |-> 0,
     cards |-> <<>>, rerun |-> FALSE,
     last |-> [kind |-> "other", id |-> <<>>, row |-> 0, had |-> FALSE]]

HadSelection == app.sel_states # {} \/ app.sel_cities # {}

\* An event of the user reaches the session s, whose widgets already hold
\* the new values, and the script runs.  last: what the event was, for the
\* events the claims speak of, and whether a state or a city was selected
\* when it came.
AppEvent(s, kind, pressed) ==
    /\ ~app.rerun
    /\ app' = ExplorePage([s EXCEPT !.last = [kind |-> kind, id |-> <<>>, row |-> 0,
                                              had |-> HadSelection]], pressed)
    /\ UNCHANGED <<fs, broken, raises, args, result, call_stems, norm, match, fetchVars,
                   keys, explore, quiz>>

\* A slip: the callback of the Region radio clears nothing.
ChangeRegionKeeps(r) ==
    /\ r # app.region
    /\ AppEvent([app EXCEPT !.region = r], "region", NoPress)

\* The Region radio changes: _on_region_change runs before the script.
ChangeRegion(r) ==
    /\ r # app.region
    /\ AppEvent([app EXCEPT !.region = r, !.sel_states = {}, !.sel_cities = {}], "region", NoPress)

\* The State(s) multiselect changes: _on_states_change runs before the script.
ChangeStates(S) ==
    /\ S # app.sel_states
    /\ AppEvent([app EXCEPT !.sel_states = S, !.sel_cities = {}], "states", NoPress)

ChangeCities(C) ==
    /\ C # app.sel_cities
    /\ AppEvent([app EXCEPT !.sel_cities = C], "other", NoPress)

\* The type picker, the keyword box or the dish checkbox changes.
ChangeFilter(T, k, d) ==
    /\ Cardinality({c \in 1..3 : <<T, k, d>>[c] # <<app.selected_types, app.q, app.only_with_dish>>[c]}) = 1
    /\ AppEvent([app EXCEPT !.selected_types = T, !.q = k, !.only_with_dish = d], "other", NoPress)

PressShow == AppEvent(app, "other", [kind |-> "show", card |-> 0])

ToggleAuto == AppEvent([app EXCEPT !.auto_show = ~app.auto_show], "other", NoPress)

\* "View details" on the k-th card of the grid.
PressView(k) ==
    /\ app.view = "grid"
    /\ k \in 1..Len(app.cards)
    /\ ~app.rerun
    /\ app' = [ExplorePage(app, [kind |-> "view", card |-> k])
                  EXCEPT !.last = [kind |-> "view", id |-> app.DF[app.cards[k]]._id,
                                   row |-> app.cards[k], had |-> HadSelection]]
    /\ UNCHANGED <<fs, broken, raises, args, result, call_stems, norm, match, fetchVars,
                   keys, explore, quiz>>

\* "Back to results" in the detail view.
PressBack ==
    /\ app.view = "detail"
    /\ AppEvent(app, "back", [kind |-> "back", card |-> 0])

\* st.rerun(): the script runs again with no event.
Rerun ==
    /\ app.rerun
    /\ app' = ExplorePage(app, NoPress)
    /\ UNCHANGED <<fs, broken, raises, args, result, call_stems, norm, match, fetchVars,
                   keys, explore, quiz>>

InitApp ==
    /\ fs = {}
    /\ broken = {}
    /\ raises = TRUE
    /\ args = PNone
    /\ result = NoCall
    /\ call_stems = <<>>
    /\ norm = NormIdle
    /\ match = MatchIdle
    /\ FetchIdle
    /\ keys = <<>>
    /\ \E id \in {Absent, PStr(DF[1]._id)} : app = ExplorePage(FreshSession(id), NoPress)
    /\ explore = <<>>
    /\ quiz = <<>>

NextApp ==
    \/ \E r \in {"All"} \cup {app.DF[i].region : i \in DOMAIN app.DF} : ChangeRegion(r)
    \/ \E S \in SUBSET app.state_opts : ChangeStates(S)
    \/ \E C \in SUBSET app.city_opts : ChangeCities(C)
    \/ \E T \in TypeChoices, k \in KeywordChoices, d \in BOOLEAN : ChangeFilter(T, k, d)
    \/ PressShow
    \/ ToggleAuto
    \/ \E k \in 1..Len(Catalog) : PressView(k)
    \/ PressBack
    \/ Rerun

SpecApp == InitApp /\ [][NextApp]_vars

---------------------------------------------------------------------------
(* app.py's Play Quiz page: the form, the score, and append_result on      *)
(* quiz_results.csv, run by several viewers at once                        *)

\* How many viewers use the quiz at once, and how many submissions are followed.
MaxViewers == 2
MaxSubmissions == 3

Viewers == 1..MaxViewers

s_New_Delhi == <<"N", "e", "w", " ", "D", "e", "l", "h", "i">>
s_Spicy == <<"S", "p", "i", "c", "y">>
s_Holi == <<"H", "o", "l", "i">>
s_With_Bread == <<"W", "i", "t", "h", " ", "B", "r", "e", "a", "d", " ", "(", "l", "i", "k", "e", " ", "n", "a", "a", "n", " ", "o", "r", " ", "r", "o", "t", "i", ")">>
s_Himachal_Pradesh == <<"H", "i", "m", "a", "c", "h", "a", "l", " ", "P", "r", "a", "d", "e", "s", "h">>
s_Rupee == <<"R", "u", "p", "e", "e">>
s_Sari == <<"S", "a", "r", "i">>
s_Mumbai == <<"M", "u", "m", "b", "a", "i">>
s_Ann == <<"A", "n", "n">>
s_Ann_padded == <<" ", "A", "n", "n", " ">>
s_mail == <<"a", "@", "b">>

\* The correct answers q1..q8.
ANSWERS ==
    <<s_New_Delhi, s_Spicy, s_Holi, s_With_Bread, s_Himachal_Pradesh, s_Rupee, s_Sari, s_Agra>>

\* What the radios of a form may hold: every answer right, none given (index
\* None), q1 wrong and q2 not given, q8 alone right.
Selections ==
    { [k \in 1..8 |-> PStr(ANSWERS[k])],
      [k \in 1..8 |-> PNone],
      [k \in 1..8 |-> IF k = 1 THEN PStr(s_Mumbai) ELSE IF k = 2 THEN PNone ELSE PStr(ANSWERS[k])],
      [k \in 1..8 |-> IF k = 8 THEN PStr(s_Agra) ELSE PStr(s_Mumbai)] }

\* The forms a viewer submits: the name and the email filled, padded, blank
\* or empty.
QuizForms ==
    [name : {s_Ann, s_Ann_padded, <<" ", "\t">>, <<>>}, email : {s_mail, <<" ">>, <<>>},
     selections : Selections]

\* correct = sum(int(selections[k] == v) for k, v in ANSWERS.items())
Score(selections) ==
    Cardinality({k \in 1..8 : selections[k] = PStr(ANSWERS[k])})

\* not name.strip() or not email.strip()
NotFilled(form) == Strip(form.name) = <<>> \/ Strip(form.email) = <<>>

\* Line 462: clean_text(v) if isinstance(v, str) else v
CleanValue(v) == IF IsStr(v) THEN PStr(clean_text(v)) ELSE v

\* The rowdict of a submission as append_result cleans it.  by: which
\* submission the row comes from (history).
RowDict(form, by) ==
    [name |-> CleanValue(PStr(form.name)), email |-> CleanValue(PStr(form.email)),
     score |-> Score(form.selections),
     selections |-> [k \in 1..8 |-> CleanValue(form.selections[k])], by |-> by]

\* One cell of df.to_csv: None and NaN are written as the empty text.
CsvCell(v) == IF IsStr(v) THEN v.s ELSE <<>>

\* df.to_csv(RESULTS_CSV, index=False): the lines of the file after the header.
to_csv(df) ==
    [i \in 1..Len(df) |->
        [name |-> CsvCell(df[i].name), email |-> CsvCell(df[i].email),
         score |-> IntStr(df[i].score),
         selections |-> [k \in 1..8 |-> CsvCell(df[i].selections[k])], by |-> df[i].by]]

\* One text cell of pd.read_csv: the empty text is NaN.
ParseCell(t) == IF t = <<>> THEN PNaN ELSE PStr(t)

\* pd.read_csv(RESULTS_CSV)
read_csv(lines) ==
    [i \in 1..Len(lines) |->
        [name |-> ParseCell(lines[i].name), email |-> ParseCell(lines[i].email),
         score |-> CHOOSE n \in 0..8 : IntStr(n) = lines[i].score,
         selections |-> [k \in 1..8 |-> ParseCell(lines[i].selections[k])], by |-> lines[i].by]]

\* quiz_results.csv: missing, just created or truncated by open(.., "w"), or
\* holding a header and lines.
NoFile == [t |-> "missing", lines |-> <<>>]
EmptyFile == [t |-> "empty", lines |-> <<>>]
CsvFile(lines) == [t |-> "csv", lines |-> lines]

\* A viewer looking at the form.  msg: what the last submission showed;
\* before, after: quiz_results.csv as the last submission found it when it
\* began to write (or, having written nothing, when it ended) and as it
\* left it (history).
AtForm(msg, form, row, before, after) ==
    [pc |-> "form", msg |-> msg, form |-> form, row |-> row, df |-> <<>>, before |-> before,
     after |-> after]

\* A viewer inside append_result.  row: the cleaned rowdict; df: the frame
\* to be written.
InAppend(pc, form, row, df, before) ==
    [pc |-> pc, msg |-> "none", form |-> form, row |-> row, df |-> df, before |-> before,
     after |-> NoFile]

QuizSet(v, viewer, file, accepted) ==
    quiz' = [quiz EXCEPT !.viewers[v] = viewer, !.file = file, !.accepted = accepted]

\* Submit pressed: an unfilled form is refused (lines 676-677); otherwise the
\* score is counted, append_result cleans the row and asks whether the file
\* exists (679-681, 462-463).
SubmitQuiz(v, form) ==
    /\ quiz.viewers[v].pc = "form"
    /\ quiz.submitted < MaxSubmissions
    /\ LET n == quiz.submitted + 1
           row == RowDict(form, n)
       IN  quiz' = [quiz EXCEPT
               !.submitted = n,
               !.accepted = IF NotFilled(form) THEN @ ELSE @ \cup {n},
               !.viewers[v] =
                   IF NotFilled(form) THEN AtForm("error", form, <<>>, quiz.file, quiz.file)
                   ELSE IF quiz.file.t = "missing"
                        THEN InAppend("open", form, row, <<row>>, NoFile)
                        ELSE InAppend("read", form, row, <<>>, NoFile)]
    /\ UNCHANGED <<fs, broken, raises, args, result, call_stems, norm, match, fetchVars,
                   keys, app, explore>>

\* Lines 464-465: pd.read_csv raises EmptyDataError on a file with no
\* columns, which ends the script run; otherwise the row is concatenated.
ReadResults(v) ==
    /\ quiz.viewers[v].pc = "read"
    /\ LET w == quiz.viewers[v]
       IN  IF quiz.file.t = "empty"
           THEN QuizSet(v, AtForm("crash", w.form, w.row, quiz.file, quiz.file), quiz.file,
                        quiz.accepted)
           ELSE QuizSet(v, InAppend("open", w.form, w.row,
                                    read_csv(quiz.file.lines) \o <<w.row>>, NoFile),
                        quiz.file, quiz.accepted)
    /\ UNCHANGED <<fs, broken, raises, args, result, call_stems, norm, match, fetchVars,
                   keys, app, explore>>

\* Line 468, first half: to_csv opens the path for writing, which creates
\* or truncates the file.
OpenResults(v) ==
    /\ quiz.viewers[v].pc = "open"
    /\ LET w == quiz.viewers[v]
       IN  QuizSet(v, InAppend("flush", w.form, w.row, w.df, quiz.file), EmptyFile,
                   quiz.accepted)
    /\ UNCHANGED <<fs, broken, raises, args, result, call_stems, norm, match, fetchVars,
                   keys, app, explore>>

\* Line 468, second half: the frame is written and the file closed; the
\* page thanks the player (line 683).
FlushResults(v) ==
    /\ quiz.viewers[v].pc = "flush"
    /\ LET w == quiz.viewers[v]
           written == CsvFile(to_csv(w.df))
       IN  QuizSet(v, AtForm("thanks", w.form, w.row, w.before, written), written,
                   quiz.accepted)
    /\ UNCHANGED <<fs, broken, raises, args, result, call_stems, norm, match, fetchVars,
                   keys, app, explore>>

InitQuiz ==
    /\ fs = {}
    /\ broken = {}
    /\ raises = TRUE
    /\ args = PNone
    /\ result = NoCall
    /\ call_stems = <<>>
    /\ norm = NormIdle
    /\ match = MatchIdle
    /\ FetchIdle
    /\ keys = <<>>
    /\ app = <<>>
    /\ explore = <<>>
    /\ quiz = [file |-> NoFile, submitted |-> 0, accepted |-> {},
               viewers |-> [v \in Viewers |->
                               AtForm("none", CHOOSE f \in QuizForms : TRUE, <<>>, NoFile, NoFile)]]

NextQuiz ==
    \/ \E v \in Viewers, form \in QuizForms : SubmitQuiz(v, form)
    \/ \E v \in Viewers : ReadResults(v)
    \/ \E v \in Viewers : OpenResults(v)
    \/ \E v \in Viewers : FlushResults(v)

SpecQuiz == InitQuiz /\ [][NextQuiz]_vars

---------------------------------------------------------------------------
(* pages/2_Explore.py: the filter panel, the results grid with its pages,   *)
(* and the detail view, one script run for each thing the viewer does      *)

s_FORT_A == <<"F", "O", "R", "T", " ", "A">>
s_Fort_B == <<"F", "o", "r", "t", " ", "B">>
s_Ghat == <<"G", "h", "a", "t">>

\* 9 cards to a page (line 238).
PER_PAGE == 9

\* How many things the viewer is followed doing on the page.
MaxEvents == 5

\* The rows of the CSV as pd.read_csv gives them: two forts and a run of
\* ghats over two regions, the odd rows without a dish, and a last row that
\* differs from the first in letter case and in having a dish.
ExploreCsv ==
    [n \in 1..11 |->
        [region |-> IF n <= 6 \/ n = 11 THEN "North" ELSE "West",
         state |-> IF n <= 6 \/ n = 11 THEN s_Delhi ELSE s_Goa,
         city |-> IF n <= 3 \/ n = 11 THEN s_Delhi ELSE IF n <= 6 THEN s_New_Delhi ELSE s_Goa,
         attraction |-> IF n = 1 THEN s_Fort_A ELSE IF n = 2 THEN s_Fort_B
                        ELSE IF n = 11 THEN s_FORT_A ELSE s_Ghat \o <<" ">> \o IntStr(n),
         dish |-> IF n % 2 = 0 \/ n = 11 THEN PStr(s_Chaat) ELSE PNaN]]

\* .fillna(""): a missing cell becomes the empty text.
FillNa(v) == IF IsStr(v) THEN v.s ELSE <<>>

\* load_data(): the frame with its missing cells filled and its _id column.
load_data(csv) ==
    [n \in DOMAIN csv |->
        [region |-> csv[n].region, state |-> csv[n].state, city |-> csv[n].city,
         attraction |-> csv[n].attraction, dish |-> FillNa(csv[n].dish),
         _id |-> load_data_id(csv[n]), n |-> n]]

ExploreDF == load_data(ExploreCsv)

\* data[mask]: the rows of a frame at the positions of mask, from the i-th
\* on, in the frame's order.
RECURSIVE RowsWhere(_, _, _)
RowsWhere(df, mask, i) ==
    IF i > Len(df) THEN <<>>
    ELSE (IF i \in mask THEN <<df[i]>> ELSE <<>>) \o RowsWhere(df, mask, i + 1)

\* filter_data(df, region, states, cities, q, only_dish)
filter_data(df, region, states, cities, q, only_dish) ==
    LET keep(r) ==
            /\ (region # "All" => r.region = region)
            /\ (states # {} => r.state \in states)
            /\ (cities # {} => r.city \in cities)
            /\ (Strip(q) # <<>> => Contains(Lower(r.attraction), Lower(q)))
            /\ (only_dish => Len(r.dish) > 0)
    IN  RowsWhere(df, {i \in DOMAIN df : keep(df[i])}, 1)

\* int(np.ceil(len(df_show) / PER_PAGE))
TotalPages(n) == (n + PER_PAGE - 1) \div PER_PAGE

\* df_show.iloc[start:end] with start, end = (page_number - 1) * PER_PAGE,
\* page_number * PER_PAGE: a slice past the end is empty.
PageSlice(df_show, page_number) ==
    LET start == (page_number - 1) * PER_PAGE
        end == IF page_number * PER_PAGE < Len(df_show) THEN page_number * PER_PAGE
               ELSE Len(df_show)
    IN  IF start >= end THEN <<>> ELSE SubSeq(df_show, start + 1, end)

\* df_show[df_show["_id"] == st.session_state.selected_id]
LookupId(df_show, selected_id) ==
    LET hit(r) == r._id = selected_id.s
    IN  RowsWhere(df_show, {i \in DOMAIN df_show : hit(df_show[i])}, 1)

\* A multiselect without a key: Streamlit identifies it by its label, its
\* options and its default, so that it keeps what the viewer picked while
\* these stay the same and shows its default when they change.
Multiselect(widget, opts, default) ==
    IF widget.opts = opts /\ widget.default = default THEN widget
    ELSE [opts |-> opts, default |-> default, value |-> default]

\* Nothing pressed in a run.
NoButton == [kind |-> "none", i |-> 0]

\* One run of the script for a session s in which the button pressed was
\* pressed.  view: what the run rendered under the panel ("info", "empty",
\* "detail", "grid"), or that it ended in an exception ("error": a
\* multiselect whose default is not among its options; "crash": .iloc[0] on
\* an empty selection).  panel: the pickers the run got to render.
ExploreRun(s, pressed) ==
    LET region == s.w_region
        df_r == filter_data(ExploreDF, region, {}, {}, <<>>, FALSE)
        state_opts == {df_r[i].state : i \in DOMAIN df_r}
        w_states == Multiselect(s.w_states, state_opts, s.sel_states)
        sel_states == w_states.value
        df_s == filter_data(df_r, "All", sel_states, {}, <<>>, FALSE)
        city_opts == {df_s[i].city : i \in DOMAIN df_s}
        w_cities == Multiselect(s.w_cities, city_opts, s.sel_cities)
        sel_cities == w_cities.value
        blank == [s EXCEPT !.view = "error", !.df_show = <<>>, !.row = <<>>, !.total_pages = 0,
                           !.df_page = <<>>, !.rerun = FALSE, !.state_opts = state_opts,
                           !.city_opts = {}, !.panel = "region"]
        upto_states == [blank EXCEPT !.w_states = w_states, !.city_opts = city_opts,
                                     !.panel = "states"]
        full == [upto_states EXCEPT !.w_cities = w_cities, !.panel = "full", !.view = "info"]
        df_show == filter_data(ExploreDF, region, sel_states, sel_cities, s.q, s.only_dish)
        found == LookupId(df_show, s.selected_id)
        total_pages == TotalPages(Len(df_show))
        df_page == PageSlice(df_show, s.page_number)
        results == [full EXCEPT !.df_show = df_show]
    IN  IF ~(s.sel_states \subseteq state_opts) THEN blank
        ELSE IF ~(s.sel_cities \subseteq city_opts) THEN upto_states
        ELSE IF pressed.kind = "show"
        THEN [full EXCEPT !.filters_submitted = TRUE, !.region = region,
                          !.sel_states = sel_states, !.sel_cities = sel_cities,
                          !.page_number = 1, !.selected_id = PNone, !.view = "none",
                          !.rerun = TRUE]
        ELSE IF ~s.filters_submitted THEN full
        ELSE IF Len(df_show) = 0 THEN [results EXCEPT !.view = "empty"]
        ELSE IF Truthy(s.selected_id)
        THEN IF found = <<>> THEN [results EXCEPT !.view = "crash"]
             ELSE IF pressed.kind = "back"
             THEN [results EXCEPT !.view = "detail", !.row = found[1], !.selected_id = PNone,
                                  !.rerun = TRUE]
             ELSE [results EXCEPT !.view = "detail", !.row = found[1]]
        ELSE LET grid == [results EXCEPT !.view = "grid", !.total_pages = total_pages,
                                         !.df_page = df_page]
             IN  IF pressed.kind = "view"
                 THEN [grid EXCEPT !.selected_id = PStr(df_page[pressed.i]._id), !.rerun = TRUE]
                 ELSE IF pressed.kind = "page"
                 THEN [grid EXCEPT !.page_number = pressed.i, !.rerun = TRUE]
                 ELSE grid

\* The session defaults (lines 166-171) and the widgets as first shown.
NewExploreSession ==
    [filters_submitted |-> FALSE, region |-> "All", sel_states |-> {}, sel_cities |-> {},
     selected_id |-> PNone, page_number |-> 1,
     w_region |-> "All",
     w_states |-> [opts |-> {}, default |-> {}, value |-> {}],
     w_cities |-> [opts |-> {}, default |-> {}, value |-> {}],
     q |-> <<>>, only_dish |-> FALSE,
     view |-> "none", df_show |-> <<>>, row |-> <<>>, total_pages |-> 0, df_page |-> <<>>,
     rerun |-> FALSE, state_opts |-> {}, city_opts |-> {}, panel |-> "none",
     last |-> "open", events |-> 0]

\* The viewer does something on the page: Streamlit takes the widget's new
\* value and runs the script.
ExploreEvent(s, kind, pressed) ==
    /\ ~explore.rerun
    /\ explore.events < MaxEvents
    /\ explore' = [ExploreRun(s, pressed) EXCEPT !.last = kind, !.events = @ + 1]
    /\ UNCHANGED <<fs, broken, raises, args, result, call_stems, norm, match, fetchVars,
                   keys, app, quiz>>

\* The Region radio (line 183).
PickRegion(r) ==
    /\ r # explore.w_region
    /\ ExploreEvent([explore EXCEPT !.w_region = r], "region", NoButton)

\* The State(s) multiselect (line 186).
PickStates(S) ==
    /\ explore.panel \in {"states", "full"}
    /\ S # explore.w_states.value
    /\ ExploreEvent([explore EXCEPT !.w_states.value = S], "states", NoButton)

\* The City/Cities multiselect (line 189).
PickCities(C) ==
    /\ explore.panel = "full"
    /\ C # explore.w_cities.value
    /\ ExploreEvent([explore EXCEPT !.w_cities.value = C], "cities", NoButton)

\* The keyword box (line 190).
TypeKeyword(k) ==
    /\ explore.panel = "full"
    /\ k # explore.q
    /\ ExploreEvent([explore EXCEPT !.q = k], "keyword", NoButton)

\* The dish checkbox (line 191).
TickOnlyDish ==
    /\ explore.panel = "full"
    /\ ExploreEvent([explore EXCEPT !.only_dish = ~@], "dish", NoButton)

\* The Show attractions button (lines 192-201).
ShowAttractions ==
    /\ explore.panel = "full"
    /\ ExploreEvent(explore, "show", [kind |-> "show", i |-> 0])

\* A card's View details button (lines 261-263).
ViewDetails(i) ==
    /\ explore.view = "grid"
    /\ i \in DOMAIN explore.df_page
    /\ ExploreEvent(explore, "view", [kind |-> "view", i |-> i])

\* The Back to results button (lines 231-233).
BackToResults ==
    /\ explore.view = "detail"
    /\ ExploreEvent(explore, "back", [kind |-> "back", i |-> 0])

\* A page button (lines 266-274): one for each page up to the tenth.
GoToPage(i) ==
    /\ explore.view = "grid"
    /\ i \in 1..explore.total_pages
    /\ i <= 10
    /\ ExploreEvent(explore, "page", [kind |-> "page", i |-> i])

\* st.rerun(): the script runs again at once, with nothing pressed.
RerunExplore ==
    /\ explore.rerun
    /\ explore' = [ExploreRun(explore, NoButton) EXCEPT !.last = explore.last]
    /\ UNCHANGED <<fs, broken, raises, args, result, call_stems, norm, match, fetchVars,
                   keys, app, quiz>>

\* What the viewer may type in the keyword box.
ExploreKeywords == {<<>>, <<" ">>, s_fort}

\* The cards of a page whose View details button the viewer may press.
ViewCards == {1, 3}

InitExplore ==
    /\ fs = {}
    /\ broken = {}
    /\ raises = TRUE
    /\ args = PNone
    /\ result = NoCall
    /\ call_stems = <<>>
    /\ norm = NormIdle
    /\ match = MatchIdle
    /\ FetchIdle
    /\ keys = <<>>
    /\ app = <<>>
    /\ explore = ExploreRun(NewExploreSession, NoButton)
    /\ quiz = <<>>

NextExplore ==
    \/ \E r \in {"All"} \cup {ExploreDF[i].region : i \in DOMAIN ExploreDF} : PickRegion(r)
    \/ \E S \in SUBSET explore.state_opts : PickStates(S)
    \/ \E C \in SUBSET explore.city_opts : PickCities(C)
    \/ \E k \in ExploreKeywords : TypeKeyword(k)
    \/ TickOnlyDish
    \/ ShowAttractions
    \/ \E i \in ViewCards : ViewDetails(i)
    \/ BackToResults
    \/ \E i \in 1..10 : GoToPage(i)
    \/ RerunExplore

SpecExplore == InitExplore /\ [][NextExplore]_vars

---------------------------------------------------------------------------
(* What the claims speak of, stated from the call and the filesystem alone *)

\* A call has been made and its outcome is recorded.
Called == result.t # "nocall"

\* What a call returned or did, without the probes it made.
Outcome(r) == <<r.t, r.s>>

\* The override for the requested kind.
RequestedOverride ==
    IF args.subdir = <<"d", "i", "s", "h", "e", "s">> THEN args.overrides.dish
    ELSE args.overrides.attr

\* The override is a str that holds more than whitespace and is not "nan" in
\* any letter case.
OverridePinned ==
    /\ IsStr(RequestedOverride)
    /\ Strip(RequestedOverride.s) # <<>>
    /\ Lower(Strip(RequestedOverride.s)) # <<"n", "a", "n">>

\* The CSV value, surrounding whitespace aside.
CsvText == Strip(args.csv_val.s)

\* The CSV value is an http(s) URL.
CsvIsUrl ==
    /\ IsStr(args.csv_val)
    /\ \/ StartsWith(CsvText, <<"h", "t", "t", "p", ":", "/", "/">>)
       \/ StartsWith(CsvText, <<"h", "t", "t", "p", "s", ":", "/", "/">>)

\* The CSV value declares a path: a str that holds more than whitespace, is
\* not "nan" and is no URL.
CsvIsPath ==
    /\ IsStr(args.csv_val)
    /\ CsvText # <<>>
    /\ Lower(CsvText) # <<"n", "a", "n">>
    /\ ~CsvIsUrl

\* The roots a declared path is probed under, in the order of the claim:
\* the current directory, the verified root of the kind, images/<kind>, images.
ProbedRoots ==
    << <<>>,
       IF args.subdir = <<"d", "i", "s", "h", "e", "s">>
       THEN << <<"i", "m", "a", "g", "e", "s", "_", "v", "e", "r", "i", "f", "i", "e", "d", "_", "d", "i", "s", "h", "e", "s">> >>
       ELSE << <<"i", "m", "a", "g", "e", "s", "_", "v", "e", "r", "i", "f", "i", "e", "d">> >>,
       << <<"i", "m", "a", "g", "e", "s">>, args.subdir >>,
       << <<"i", "m", "a", "g", "e", "s">> >> >>

\* The declared path below the k-th root.
DeclaredUnder(k) == ProbedRoots[k] \o ParsePath(CsvText)

\* A file or a directory of the filesystem.
OnDisk(p) == p \in fs \cup Dirs(fs)

\* The declared path is relative and every name in it is one the filesystem
\* can look up (at most NAME_MAX characters).
CsvIsPlainRelative ==
    /\ CsvIsPath
    /\ CsvText[1] # "/"
    /\ \A k \in 1..Len(ParsePath(CsvText)) : Len(ParsePath(CsvText)[k]) <= 255

\* The same call with the CSV value absent.
ArgsCsvAbsent == [args EXCEPT !.csv_val = PNone]

---------------------------------------------------------------------------
(* C1 as stated: whenever the override for the requested kind is a         *)
(* non-empty string other than 'nan', the call returns exactly that        *)
(* string.                                                                 *)
C1_OverrideVerbatim ==
    (/\ Called
     /\ IsStr(RequestedOverride)
     /\ RequestedOverride.s # <<>>
     /\ RequestedOverride.s # <<"n", "a", "n">>)
    => Outcome(result) = <<"str", RequestedOverride.s>>

(* C1 amended: whenever the override for the requested kind is a string    *)
(* that, stripped of surrounding whitespace, is non-empty and is not 'nan' *)
(* in any letter case, the call returns that override stripped of          *)
(* surrounding whitespace and probes nothing, whatever the CSV value, the  *)
(* names and the filesystem hold.                                          *)
C1_OverrideStripped ==
    (Called /\ OverridePinned) => result = Ret(Strip(RequestedOverride.s), {})

\* An override was returned although the CSV value is a path that exists.
C1_Witness ==
    /\ Called
    /\ OverridePinned
    /\ CsvIsPlainRelative
    /\ OnDisk(DeclaredUnder(1))
    /\ result.s = Strip(RequestedOverride.s)

---------------------------------------------------------------------------
(* C2 as stated: when no override applies and the CSV value starts with    *)
(* http:// or https://, the call returns that value unchanged and makes no *)
(* filesystem probe.                                                       *)
C2_UrlUnchanged ==
    (/\ Called
     /\ ~OverridePinned
     /\ IsStr(args.csv_val)
     /\ \/ StartsWith(args.csv_val.s, <<"h", "t", "t", "p", ":", "/", "/">>)
        \/ StartsWith(args.csv_val.s, <<"h", "t", "t", "p", "s", ":", "/", "/">>))
    => result = Ret(args.csv_val.s, {})

(* C2 amended: when no override applies and the CSV value, stripped of     *)
(* surrounding whitespace, starts with http:// or https://, the call       *)
(* returns the stripped value and makes no filesystem probe.               *)
C2_UrlStripped ==
    (Called /\ ~OverridePinned /\ CsvIsUrl) => result = Ret(CsvText, {})

\* A URL that ends in whitespace was returned while files exist.
C2_Witness ==
    /\ Called
    /\ ~OverridePinned
    /\ CsvIsUrl
    /\ CsvText # args.csv_val.s
    /\ fs # {}
    /\ result.s = CsvText

---------------------------------------------------------------------------
(* C3: when no override applies, stat() works and the CSV value is a       *)
(* relative path that exists under at least one probed root, the call      *)
(* returns that path under the first such root in the order (current       *)
(* directory, verified root of the kind, images/<kind>, images).           *)
C3_FirstRootWins ==
    (/\ Called
     /\ ~OverridePinned
     /\ CsvIsPlainRelative
     /\ broken = {}
     /\ \E k \in 1..4 : OnDisk(DeclaredUnder(k)))
    => \E k \in 1..4 :
          /\ OnDisk(DeclaredUnder(k))
          /\ \A j \in 1..(k - 1) : ~OnDisk(DeclaredUnder(j))
          /\ Outcome(result) = <<"str", PathStr(DeclaredUnder(k))>>

\* The path exists under the verified root and under a later root, not under
\* the cwd, and the verified root's was returned.
C3_Witness ==
    /\ Called
    /\ ~OverridePinned
    /\ CsvIsPlainRelative
    /\ ~OnDisk(DeclaredUnder(1))
    /\ OnDisk(DeclaredUnder(2))
    /\ OnDisk(DeclaredUnder(4))
    /\ result.s = PathStr(DeclaredUnder(2))

---------------------------------------------------------------------------
(* C4: when no override applies and the CSV value declares a path that     *)
(* exists under none of the probed roots, the call goes on to the local    *)
(* search and returns what it returns when the CSV value is absent: the    *)
(* matching image of the row's state and city folders, if there is one.    *)
C4_MissingPathFallsThrough ==
    (/\ Called
     /\ ~OverridePinned
     /\ CsvIsPlainRelative
     /\ broken = {}
     /\ \A k \in 1..4 : ~OnDisk(DeclaredUnder(k)))
    => Outcome(result) \in {Outcome(r) : r \in PossibleResults(ArgsCsvAbsent)}

---------------------------------------------------------------------------
(* C5: every value the call returns that is neither the override nor an    *)
(* http(s) CSV URL is the path of a file or directory that exists and that *)
(* the call probed; a declared path that no root holds is never returned.  *)
C5_ReturnedPathExists ==
    (Called /\ result.t = "str" /\ ~OverridePinned /\ ~CsvIsUrl)
    => \E p \in result.probes : PathStr(p) = result.s /\ OnDisk(p)

\* The local search returned an image it found by scanning the state folder.
C5_Witness ==
    /\ Called
    /\ ~OverridePinned
    /\ ~IsStr(args.csv_val)
    /\ result.t = "str"
    /\ \E f \in fs : PathStr(f) = result.s /\ f \in result.probes /\ Len(f) = 3

---------------------------------------------------------------------------
(* C6: a CSV value that is empty, whitespace only or the text 'nan' is     *)
(* treated as a missing value: the call returns what it returns with the   *)
(* CSV value absent, never the text 'nan', and None when no file lies      *)
(* under the image roots of the kind.                                      *)
CsvIsBlankOrNan ==
    IsStr(args.csv_val) /\ (CsvText = <<>> \/ args.csv_val.s = <<"n", "a", "n">>)

C6_BlankOrNanIsMissing ==
    (Called /\ CsvIsBlankOrNan)
    => /\ Outcome(result) \in {Outcome(r) : r \in PossibleResults(ArgsCsvAbsent)}
       /\ result.s # <<"n", "a", "n">>
       /\ (~OverridePinned /\ \A f \in fs : ~IsBelow(f, ProbedRoots[2]) /\ ~IsBelow(f, ProbedRoots[3]))
              => result.t = "None"

\* With the CSV value 'nan' the local search found the row's image.
C6_Witness ==
    /\ Called
    /\ args.csv_val = PStr(<<"n", "a", "n">>)
    /\ result.t = "str"
    /\ \E f \in fs : PathStr(f) = result.s

---------------------------------------------------------------------------
(* C7: the call never raises for a missing image: whatever the CSV value,  *)
(* the names, the kind and the overrides are, and whichever roots, folders *)
(* and files are absent, it returns an image reference or None.            *)
C7_NeverRaises == broken = {} => result.t \in {"nocall", "str", "None"}

---------------------------------------------------------------------------
(* C8: when a probe of the call fails with a filesystem error (permission  *)
(* denied, I/O error), the probe counts as 'not found' and no error        *)
(* reaches the caller.                                                     *)
C8_ProbeErrorIsNotFound ==
    (Called /\ broken # {})
    => /\ result.t # "raise"
       /\ \A p \in broken : PathStr(p) # result.s

---------------------------------------------------------------------------
(* C9: two calls with equal arguments against the same directories and     *)
(* files return the same result, also when several files of the scanned    *)
(* folder match the fuzzy rule: the result does not depend on the order in *)
(* which the scan lists the files.                                         *)
C9_Deterministic ==
    [][(result.t \in {"str", "None"} /\ result'.t \in {"str", "None"} /\ fs' = fs /\ args' = args)
          => Outcome(result') = Outcome(result)]_vars

---------------------------------------------------------------------------
(* C10: _norm is idempotent: normalizing the result of _norm again gives   *)
(* the same string, for every input string.                                *)
C10_NormIdempotent == norm.calls = 2 => norm.twice = norm.once

\* An input that _norm changes has been normalized twice.
C10_Witness == norm.calls = 2 /\ norm.once # norm.s /\ norm.once # <<>>

---------------------------------------------------------------------------
(* What the claims on the fuzzy pass speak of *)

\* The name normalized as _norm does, and without its underscores.
FlatOf(x) == RemoveChar(_norm(PStr(x)), "_")

\* The tokens of the normalized name that are no stop words.
TokensOf(x) ==
    {t \in Range(Split(_norm(PStr(x)), "_")) : t # <<>> /\ t \notin STOP_WORDS}

\* x occurs in y (the empty string occurs in every string).
Substring(x, y) ==
    \E i \in 0..(Len(y) - Len(x)) : SubSeq(y, i + 1, i + Len(x)) = x

\* The decision has been made with the file match.name and the stem match.stem.
Decided == match.calls >= 1

---------------------------------------------------------------------------
(* C11: a stop word never gives a fuzzy match: for every stop word w the   *)
(* fuzzy pass does not match an image file whose stem is exactly w against *)
(* a candidate stem that consists only of w.                               *)
C11_StopWordNeverMatches ==
    (Decided /\ match.stem \in STOP_WORDS /\ match.name = match.stem) => ~match.fwd

---------------------------------------------------------------------------
(* C12: the fuzzy decision is symmetric: whether candidate stem A matches  *)
(* file stem B has the same answer as whether candidate stem B matches     *)
(* file stem A, also when one of the two normalizes to the empty string.   *)
C12_MatchSymmetric == match.calls = 2 => match.fwd = match.bwd

---------------------------------------------------------------------------
(* C15 as stated: an image file matches a candidate stem exactly when the  *)
(* stop-word-filtered token sets of the two normalized stems share at      *)
(* least 2 tokens, or one of the two underscore-free normalized strings is *)
(* a substring of the other.                                               *)
C15_TokensOrSubstring ==
    Decided =>
        (match.fwd <=>
            \/ Cardinality(TokensOf(match.stem) \cap TokensOf(match.name)) >= 2
            \/ Substring(FlatOf(match.stem), FlatOf(match.name))
            \/ Substring(FlatOf(match.name), FlatOf(match.stem)))

(* C15 amended: an image file matches a candidate stem exactly when the    *)
(* stop-word-filtered token sets of the two normalized stems share at      *)
(* least 2 tokens, or the candidate's underscore-free normalized string is *)
(* not empty and one of the two underscore-free normalized strings is a    *)
(* substring of the other; the candidate red_fort matches the file         *)
(* redfort_main.jpg through the substring rule.                            *)
C15_TokensOrNonEmptySubstring ==
    Decided =>
        /\ match.fwd <=>
            \/ Cardinality(TokensOf(match.stem) \cap TokensOf(match.name)) >= 2
            \/ /\ FlatOf(match.stem) # <<>>
               /\ \/ Substring(FlatOf(match.stem), FlatOf(match.name))
                  \/ Substring(FlatOf(match.name), FlatOf(match.stem))
        /\ (match.stem = <<"r", "e", "d", "_", "f", "o", "r", "t">>
              /\ match.name = <<"r", "e", "d", "f", "o", "r", "t", "_", "m", "a", "i", "n">>)
           => match.fwd

\* red_fort matched redfort_main.jpg although the two share no two tokens.
C15_Witness ==
    /\ Decided
    /\ match.stem = <<"r", "e", "d", "_", "f", "o", "r", "t">>
    /\ match.name = <<"r", "e", "d", "f", "o", "r", "t", "_", "m", "a", "i", "n">>
    /\ Cardinality(TokensOf(match.stem) \cap TokensOf(match.name)) < 2
    /\ match.fwd

---------------------------------------------------------------------------
(* What the claims on the local search speak of *)

\* The call went to the local search: no override applies and the CSV value
\* is absent.
SearchedLocally == Called /\ ~OverridePinned /\ ~IsStr(args.csv_val)

\* The verified root of the kind and the secondary root images/<kind>.
PrimaryRoot == ProbedRoots[2]
SecondaryRoot == ProbedRoots[3]

\* The spellings of a folder name: raw; surrounding whitespace dropped and
\* every run of whitespace turned into one underscore; and that without the
\* characters that are no letter, digit or underscore.  A name that is no
\* text has none.
Spellings(x) ==
    IF x.t # "str" THEN <<>>
    ELSE << x.s,
            ReSubRuns(Strip(x.s), Whitespace, <<"_">>),
            SelectSeq(ReSubRuns(Strip(x.s), Whitespace, <<"_">>),
                      LAMBDA c : c \in Range(LowerChars) \cup Range(UpperChars)
                                        \cup Range(DigitChars) \cup {"_"}) >>

\* The folder of the name x inside parent: the first spelling that exists
\* there (ok tells whether one does).
FolderOf(parent, x) ==
    LET hits == {k \in 1..Len(Spellings(x)) : OnDisk(parent \o ParsePath(Spellings(x)[k]))}
    IN  IF hits = {} THEN [ok |-> FALSE, p |-> <<>>]
        ELSE [ok |-> TRUE,
              p |-> parent \o ParsePath(Spellings(x)[CHOOSE k \in hits : \A j \in hits : k <= j])]

\* The same, the first spelling that is an existing directory.
DirectoryOf(parent, x) ==
    LET hits == {k \in 1..Len(Spellings(x)) : parent \o ParsePath(Spellings(x)[k]) \in Dirs(fs)}
    IN  IF hits = {} THEN [ok |-> FALSE, p |-> <<>>]
        ELSE [ok |-> TRUE,
              p |-> parent \o ParsePath(Spellings(x)[CHOOSE k \in hits : \A j \in hits : k <= j])]

\* The call returned the path of the file f.
Returned(f) == result.t = "str" /\ f \in fs /\ result.s = PathStr(f)

\* The file name of the k-th candidate stem with the e-th extension.
ExactName(k, e) == _norm(PStr(call_stems[k])) \o IMG_EXTS[e]

\* The entries directly in the folder d that are named as a candidate stem
\* with a recognized extension.
ExactIn(d) ==
    {d \o <<ExactName(k, e)>> : k \in 1..Len(call_stems), e \in 1..Len(IMG_EXTS)}
        \cap (fs \cup Dirs(fs))

\* The image files below the folder d that match a candidate stem by the
\* fuzzy rule.
FuzzyIn(d) ==
    {f \in fs :
        /\ IsBelow(f, d)
        /\ Lower(PathSuffix(f)) \in Range(IMG_EXTS)
        /\ \E k \in 1..Len(call_stems) :
              \/ Cardinality(TokensOf(call_stems[k]) \cap TokensOf(PathStem(f))) >= 2
              \/ /\ FlatOf(call_stems[k]) # <<>>
                 /\ \/ Substring(FlatOf(call_stems[k]), FlatOf(PathStem(f)))
                    \/ Substring(FlatOf(PathStem(f)), FlatOf(call_stems[k]))}

\* The folders searched in the root R: the city folder, when there is one,
\* then the state folder.
FoldersOf(R) ==
    IF ~FolderOf(R, args.state).ok THEN <<>>
    ELSE (IF FolderOf(FolderOf(R, args.state).p, args.city).ok
          THEN <<FolderOf(FolderOf(R, args.state).p, args.city).p>> ELSE <<>>)
         \o <<FolderOf(R, args.state).p>>

\* The root R holds an exact or a fuzzy match for the call.
HitIn(R) ==
    \E j \in 1..Len(FoldersOf(R)) : ExactIn(FoldersOf(R)[j]) # {} \/ FuzzyIn(FoldersOf(R)[j]) # {}

\* The names the stems are built from.
NameA == _norm(args.attraction)
NameC == _norm(args.city)
NameS == _norm(args.state)
NameD == _norm(args.dish)
Dish_ == <<"_", "d", "i", "s", "h">>

\* name+city+state, name+city, name alone
Combos(n) == <<n \o <<"_">> \o NameC \o <<"_">> \o NameS, n \o <<"_">> \o NameC, n>>

\* The hint stem, if the caller gave one.
HintStems ==
    IF args.local_base.t = "str" /\ args.local_base.s # <<>> THEN <<args.local_base.s>> ELSE <<>>

\* The call is for a dish and has a dish name: a non-empty text, or the NaN
\* of an empty cell, which reads as the name "nan".
ForNamedDish ==
    /\ args.subdir = <<"d", "i", "s", "h", "e", "s">>
    /\ (args.dish.t = "str" /\ args.dish.s # <<>>) \/ args.dish.t = "float"

---------------------------------------------------------------------------
(* C16: within one image root the search order is exact match in the city  *)
(* folder, exact match in the state folder, fuzzy match in the city        *)
(* folder, fuzzy match in the state folder: the fuzzy pass runs only if no *)
(* exact match exists in either folder, and among exact matches the        *)
(* earlier folder, then the earlier candidate stem, then the earlier       *)
(* extension (jpg, jpeg, png, webp, gif) wins.                             *)
C16_SearchOrder ==
    (SearchedLocally /\ FoldersOf(PrimaryRoot) # <<>>) =>
        LET F == FoldersOf(PrimaryRoot)
            P(j, k, e) == F[j] \o <<ExactName(k, e)>>
            Before(j1, k1, e1, j, k, e) ==
                j1 < j \/ (j1 = j /\ k1 < k) \/ (j1 = j /\ k1 = k /\ e1 < e)
            NoExact == \A j \in 1..Len(F) : ExactIn(F[j]) = {}
        IN  /\ ~NoExact =>
                \E j \in 1..Len(F), k \in 1..Len(call_stems), e \in 1..Len(IMG_EXTS) :
                    /\ OnDisk(P(j, k, e))
                    /\ \A j1 \in 1..Len(F), k1 \in 1..Len(call_stems), e1 \in 1..Len(IMG_EXTS) :
                          Before(j1, k1, e1, j, k, e) => ~OnDisk(P(j1, k1, e1))
                    /\ Outcome(result) = <<"str", PathStr(P(j, k, e))>>
            /\ (NoExact /\ FuzzyIn(F[1]) # {}) => \E f \in FuzzyIn(F[1]) : Returned(f)
            /\ (NoExact /\ FuzzyIn(F[1]) = {} /\ FuzzyIn(F[Len(F)]) # {})
                  => \E f \in FuzzyIn(F[Len(F)]) : Returned(f)

\* The exact match of the state folder was returned although the city folder
\* holds a fuzzy match.
C16_Witness ==
    /\ SearchedLocally
    /\ Len(FoldersOf(PrimaryRoot)) = 2
    /\ FoldersOf(PrimaryRoot)[1] # FoldersOf(PrimaryRoot)[2]
    /\ FuzzyIn(FoldersOf(PrimaryRoot)[1]) # {}
    /\ ExactIn(FoldersOf(PrimaryRoot)[1]) = {}
    /\ \E f \in ExactIn(FoldersOf(PrimaryRoot)[2]) : Returned(f)

---------------------------------------------------------------------------
(* C17 as stated: the stems built for step 3 are the hint (if any); then,  *)
(* for dishes, dish+city+state, dish+city, dish alone, each optionally     *)
(* suffixed _dish; then attraction+city+state, attraction+city, attraction *)
(* alone: for a dish the _dish-suffixed stems are built from the dish name *)
(* and no attraction-based stem precedes a dish-based one.                 *)
C17_DishSuffixFromDishName ==
    (SearchedLocally /\ ForNamedDish) =>
        \E n \in 0..Len(call_stems) :
            /\ SubSeq(call_stems, 1, Len(HintStems)) = HintStems
            /\ Len(HintStems) + n + 3 = Len(call_stems)
            /\ \A i \in (Len(HintStems) + 1)..(Len(HintStems) + n) :
                  \E c \in 1..3 : call_stems[i] \in {Combos(NameD)[c], Combos(NameD)[c] \o Dish_}
            /\ \A c \in 1..3 : \E i \in (Len(HintStems) + 1)..(Len(HintStems) + n) :
                  call_stems[i] = Combos(NameD)[c]
            /\ SubSeq(call_stems, Len(HintStems) + n + 1, Len(call_stems)) = Combos(NameA)

(* C17 amended: the stems built for step 3 are the hint (if any); then,    *)
(* for dishes with a dish name (a non-empty text, or the NaN of an empty   *)
(* cell, read as 'nan'), dish+city+state, dish+city, dish alone;           *)
(* then attraction+city+state, attraction+city, attraction alone; then,    *)
(* for dishes, attraction+city+state, attraction+city and attraction alone *)
(* each suffixed _dish: the _dish-suffixed stems are built from the        *)
(* attraction name and come last, and no attraction-based stem precedes a  *)
(* dish-based one.                                                         *)
C17_DishSuffixFromAttraction ==
    SearchedLocally =>
        call_stems =
            HintStems
            \o (IF ForNamedDish THEN Combos(NameD) ELSE <<>>)
            \o Combos(NameA)
            \o (IF args.subdir = <<"d", "i", "s", "h", "e", "s">>
                THEN [c \in 1..3 |-> Combos(NameA)[c] \o Dish_] ELSE <<>>)

\* The stems of a dish with a name and a hint were built.
C17_Witness ==
    /\ SearchedLocally
    /\ ForNamedDish
    /\ HintStems # <<>>
    /\ Len(call_stems) = 10
    /\ call_stems[2] # call_stems[5]

---------------------------------------------------------------------------
(* C18: the state folder is the first existing directory among the raw,    *)
(* whitespace-underscored and alphanumeric-stripped spellings of the state *)
(* name under the root; if none exists the root yields no result; the city *)
(* folder is found the same way inside the state folder and is optional:   *)
(* without one the passes still run against the state folder alone.        *)
C18_FolderSpellings ==
    SearchedLocally =>
        LET S == DirectoryOf(PrimaryRoot, args.state)
            C == DirectoryOf(S.p, args.city)
        IN  /\ (~S.ok /\ ~DirectoryOf(SecondaryRoot, args.state).ok) => result.t = "None"
            /\ (S.ok /\ C.ok /\ ExactIn(C.p) # {}) => \E f \in ExactIn(C.p) : Returned(f)
            /\ (S.ok /\ ~C.ok /\ ExactIn(S.p) # {}) => \E f \in ExactIn(S.p) : Returned(f)

---------------------------------------------------------------------------
(* C19: the local search is strict: every file it returns lies inside a    *)
(* directory of an image root that is named by a spelling of the row's own *)
(* state; for no input, an empty state included, is an image stored under  *)
(* a different state's folder returned.                                    *)
C19_StaysInStateFolder ==
    (SearchedLocally /\ result.t = "str") =>
        \E R \in {PrimaryRoot, SecondaryRoot}, k \in 1..Len(Spellings(args.state)) :
            /\ ParsePath(Spellings(args.state)[k]) # <<>>
            /\ \E f \in fs : Returned(f) /\ IsBelow(f, R \o ParsePath(Spellings(args.state)[k]))

---------------------------------------------------------------------------
(* C20: step 3 searches the verified root of the kind first and the        *)
(* secondary root images/<kind> only if the primary root yields nothing: a *)
(* hit (exact or fuzzy) in the primary root is returned in preference to   *)
(* any file under the secondary root.                                      *)
C20_PrimaryRootFirst ==
    SearchedLocally =>
        /\ HitIn(PrimaryRoot) => \E f \in fs : Returned(f) /\ IsBelow(f, PrimaryRoot)
        /\ (~HitIn(PrimaryRoot) /\ HitIn(SecondaryRoot))
              => \E f \in fs : Returned(f) /\ IsBelow(f, SecondaryRoot)
        /\ (~HitIn(PrimaryRoot) /\ ~HitIn(SecondaryRoot)) => result.t = "None"

\* A fuzzy match of the primary root was returned although the secondary
\* root holds an exact match.
C20_Witness ==
    /\ SearchedLocally
    /\ \A j \in 1..Len(FoldersOf(PrimaryRoot)) : ExactIn(FoldersOf(PrimaryRoot)[j]) = {}
    /\ \E j \in 1..Len(FoldersOf(SecondaryRoot)) : ExactIn(FoldersOf(SecondaryRoot)[j]) # {}
    /\ \E f \in fs : Returned(f) /\ IsBelow(f, PrimaryRoot)

---------------------------------------------------------------------------
(* What the claims on the network image cache speak of *)

\* The worker i has finished a call and its result is not yet collected.
Finished(i) == pool[i].pc = "done"

\* The link names a Drive file: it is a drive.google.com link with /d/<id>
\* or id=<id>.
HasDriveId(u) ==
    /\ u.t = "str"
    /\ Substring(<<"d", "r", "i", "v", "e", ".", "g", "o", "o", "g", "l", "e", ".", "c", "o", "m">>, u.s)
    /\ \E p \in 1..(Len(u.s) - 3) :
          /\ SubSeq(u.s, p, p + 2) \in {<<"/", "d", "/">>, <<"i", "d", "=">>}
          /\ u.s[p + 3] \in Range(LowerChars) \cup Range(UpperChars) \cup Range(DigitChars)
                                \cup {"_", "-"}

\* The request failed: an exception, a status other than 200, or a content
\* type that is no image.
FailedRequest(r) ==
    r.exc \/ r.status # 200 \/ ~Substring(<<"i", "m", "a", "g", "e">>, r.ctype)

\* The call of worker i has no image to give: its link is empty or names no
\* Drive file, or it asked both candidate URLs and both requests failed.
NothingToFetch(i) ==
    \/ ~HasDriveId(pool[i].url)
    \/ Len(pool[i].resps) = 2 /\ \A k \in 1..2 : FailedRequest(pool[i].resps[k])

---------------------------------------------------------------------------
(* C13: the cache is keyed by (URL, width, format) only: once a fetch for  *)
(* (url, w, fmt) has stored its image, every later call with the same      *)
(* (url, w, fmt), whatever its quality, returns exactly the stored bytes   *)
(* and makes no network request; calls that differ in url, w or fmt never  *)
(* share a cache file.                                                     *)
C13_KeyedByUrlWidthFormat ==
    /\ \A i \in Workers :
          (Finished(i) /\ pool[i].seen # NoBytes)
          => pool[i].ret = [t |-> "bytes", b |-> pool[i].seen] /\ pool[i].net = 0
    /\ \A i, j \in Workers :
          (/\ pool[i].pc # "idle"
           /\ pool[j].pc # "idle"
           /\ <<pool[i].url, pool[i].w, pool[i].fmt>> # <<pool[j].url, pool[j].w, pool[j].fmt>>)
          => CacheFile(pool[i]) # CacheFile(pool[j])

---------------------------------------------------------------------------
(* C14: a failed fetch yields 'no image': when the link is empty or names  *)
(* no Drive file, or every candidate URL fails (exception, status other    *)
(* than 200, content type that is no image), the call returns None, has    *)
(* written nothing to the cache and raises nothing, and the step that ends *)
(* it leaves the cache and the other workers' calls as they were.          *)
C14_FailedFetchIsNoImage ==
    [][\A i \in Workers :
          (pool[i].pc # "done" /\ pool'[i].pc = "done" /\ NothingToFetch(i)')
          => /\ pool'[i].ret = [t |-> "None", b |-> NoBytes]
             /\ ~pool'[i].wrote
             /\ cache' = cache
             /\ \A j \in Workers \ {i} : pool'[j] = pool[j]]_vars

\* Both requests of a call failed and it returned None while another call
\* was writing its image to the cache.
C14_Witness ==
    \E i, j \in Workers :
        /\ Finished(i)
        /\ HasDriveId(pool[i].url)
        /\ Len(pool[i].resps) = 2
        /\ pool[i].ret.t = "None"
        /\ pool[j].pc = "write"

---------------------------------------------------------------------------
(* What the claims on the row identity key speak of *)

\* The two rows have the same attraction name, city and state after case
\* folding and whitespace collapsing.
SameFoldedFields ==
    \A c \in {"attraction", "city", "state"} : keyfy(PStr(keys.a[c])) = keyfy(PStr(keys.b[c]))

---------------------------------------------------------------------------
(* C21: the _id of a row is the case-folded, whitespace-collapsed          *)
(* concatenation of (attraction name, city, state): two catalog rows       *)
(* receive the same _id exactly when their attraction names, cities and    *)
(* states are pairwise equal after case folding and whitespace collapsing, *)
(* in app.py and in pages/2_Explore.py alike.                              *)
C21_SameIdIffSameFields ==
    keys.loaded
    => /\ (keys.app_id[1] = keys.app_id[2]) <=> SameFoldedFields
       /\ (keys.page_id[1] = keys.page_id[2]) <=> SameFoldedFields

---------------------------------------------------------------------------
(* What the claims on app.py's Explore page speak of *)

\* The detail view of catalog row i is on the screen.
DetailOf(i) == app.view = "detail" /\ app.shown = i /\ ~app.rerun

\* Row j comes before row i among the rows of the sequence rows.
Precedes(rows, j, i) ==
    \E a, b \in 1..Len(rows) : a < b /\ rows[a] = j /\ rows[b] = i

\* The rows that share their _id with a row shown before them when nothing
\* is filtered out.
LaterTwins ==
    {i \in DOMAIN DF :
        \E j \in DOMAIN DF : DF[j]._id = DF[i]._id /\ Precedes(SortValues(DF, DOMAIN DF), j, i)}

---------------------------------------------------------------------------
(* C22: when two distinct rows have the same _id the detail lookup takes   *)
(* the first row with that key; 'View details' on the card of the later    *)
(* row renders the other row, so the later row is never shown in detail.   *)
C22_LaterRowNeverShown ==
    \A i \in LaterTwins : ~DetailOf(i)

\* C22 as the code has it: the row shown in detail is the first row with
\* its _id in the filtered, sorted result of that run (or, when the result
\* has no such row, the first in the catalog), also right after 'View
\* details' was pressed on the card of a later row with that _id.
C22_DetailIsFirstOfResult ==
    \A i \in DOMAIN DF :
        DetailOf(i)
        => /\ \A j \in DOMAIN DF : DF[j]._id = DF[i]._id => ~Precedes(app.df_show, j, i)
           /\ (\A k \in 1..Len(app.df_show) : DF[app.df_show[k]]._id # DF[i]._id)
              => \A j \in DOMAIN DF : DF[j]._id = DF[i]._id => i <= j
           /\ app.last.kind = "view" => DF[i]._id = app.last.id

\* 'View details' was pressed on the card of a row that is not the first
\* with its _id, and the detail view shows the other row.
C22_Witness ==
    \E i \in DOMAIN DF :
        /\ DetailOf(i)
        /\ app.last.kind = "view"
        /\ app.last.row # i
        /\ Precedes(app.df_show, i, app.last.row)

---------------------------------------------------------------------------
(* C23: under concurrent calls of fetch_and_process for the same (url,     *)
(* width, format), a call that finds the cache file present returns the    *)
(* complete data a finished fetch wrote: never an empty or partly written  *)
(* file.                                                                   *)
C23_CacheServesWholeFiles ==
    \A i \in Workers :
        (Finished(i) /\ HasDriveId(pool[i].url) /\ pool[i].net = 0 /\ pool[i].ret.t = "bytes")
        => /\ pool[i].ret.b \notin {EmptyBytes, NoBytes}
           /\ \E r \in Responses, q \in {c.q : c \in FetchCalls} :
                 ResponseOk(r) /\ pool[i].ret.b = Processed(r, pool[i].w, pool[i].fmt, q)

---------------------------------------------------------------------------
(* What the claims on the quiz results speak of *)

\* No viewer is inside a submission.
QuizAtRest == \A v \in Viewers : quiz.viewers[v].pc = "form"

\* The submissions whose rows quiz_results.csv holds, in the file's order.
StoredBy == [i \in 1..Len(quiz.file.lines) |-> quiz.file.lines[i].by]

\* C24: after any sequence of valid submissions, those of several viewers at
\* once included, quiz_results.csv holds exactly one row for each of them:
\* none is lost, none is there twice.
C24_OneRowPerSubmission ==
    (quiz # <<>> /\ QuizAtRest) =>
        /\ Len(StoredBy) = Cardinality(quiz.accepted)
        /\ {StoredBy[i] : i \in 1..Len(StoredBy)} = quiz.accepted

\* How many of the eight questions a form answers with the correct option.
NumberRight(form) ==
    Cardinality({k \in 1..8 : form.selections[k].t = "str" /\ form.selections[k].s = ANSWERS[k]})

Blank(s) == \A i \in 1..Len(s) : s[i] \in Whitespace

\* The file a submission left is the file it found and one more row.
OneRowMore(before, after) ==
    /\ after.t = "csv"
    /\ Len(after.lines) = Len(before.lines) + 1
    /\ SubSeq(after.lines, 1, Len(before.lines)) = before.lines

\* C25: a submission whose name or email is empty or blank appends nothing
\* to the results file; any other one appends exactly one row, whose score is
\* the number of questions answered with the correct option, from 0 to 8.
C25_OneScoredRowPerValidForm ==
    quiz # <<>> =>
        \A v \in Viewers :
            LET w == quiz.viewers[v]
            IN  (w.pc = "form" /\ w.msg # "none") =>
                    IF Blank(w.form.name) \/ Blank(w.form.email)
                    THEN w.msg = "error" /\ w.after = w.before
                    ELSE /\ w.msg = "thanks"
                         /\ OneRowMore(w.before, w.after)
                         /\ w.after.lines[Len(w.after.lines)].score = IntStr(NumberRight(w.form))
                         /\ NumberRight(w.form) \in 0..8

---------------------------------------------------------------------------
(* What the claims on pages/2_Explore.py speak of *)

\* The last run got as far as the detail view: results were asked for, an
\* attraction is selected and the filtered result is not empty.
DetailReached ==
    /\ explore.view \in {"detail", "crash"}
    /\ explore.filters_submitted
    /\ Truthy(explore.selected_id)
    /\ Len(explore.df_show) > 0

\* C26: whenever the detail view is rendered, the filtered result holds a row
\* whose _id is selected_id, so that the lookup of the row never fails,
\* whatever widgets the viewer changed while the detail view was open.
C26_DetailRowIsInResult ==
    (explore # <<>> /\ DetailReached) =>
        /\ \E i \in DOMAIN explore.df_show : explore.df_show[i]._id = explore.selected_id.s
        /\ explore.view = "detail"

\* The last run rendered the grid and is not about to be run again.
GridRendered == explore.view = "grid" /\ ~explore.rerun

\* C27: in every render of the grid the stored page number is between 1 and
\* the number of pages of the filtered result, so that the grid never shows
\* an empty page while there are results.
C27_PageNumberWithinPages ==
    (explore # <<>> /\ GridRendered) =>
        /\ 1 <= explore.page_number
        /\ explore.page_number <= explore.total_pages
        /\ explore.df_page # <<>>

---------------------------------------------------------------------------
(* What the claims on app.py's pickers and navigation speak of *)

\* The states of the catalog in a region, and the cities in a region and,
\* when states are selected, in those states.
StatesIn(region) == {DF[i].state : i \in {j \in DOMAIN DF : region = "All" \/ DF[j].region = region}}

CitiesIn(region, states) ==
    {DF[i].city : i \in {j \in DOMAIN DF : /\ region = "All" \/ DF[j].region = region
                                           /\ states = {} \/ DF[j].state \in states}}

\* C28: at every render the selected states are among the states of the
\* selected region and the selected cities among the cities of the selected
\* states; a change of the region clears both selections, a change of the
\* states clears the selected cities.
C28_PickersInSync ==
    app # <<>> =>
        /\ app.state_opts = StatesIn(app.region)
        /\ app.city_opts = CitiesIn(app.region, app.sel_states)
        /\ app.sel_states \subseteq StatesIn(app.region)
        /\ app.sel_cities \subseteq CitiesIn(app.region, app.sel_states)
        /\ app.last.kind = "region" => app.sel_states = {} /\ app.sel_cities = {}
        /\ app.last.kind = "states" => app.sel_cities = {}

\* A change of the region found states and cities selected and cleared them,
\* in a region that has not every state.
C28_Witness ==
    /\ app # <<>>
    /\ app.last.kind = "region"
    /\ app.last.had
    /\ app.sel_states = {}
    /\ app.sel_cities = {}
    /\ app.state_opts # StatesIn("All")

HasId(v) == v.t = "str" /\ v.s # <<>>

\* The run that follows a press of View details has rendered.
ViewRendered == app.last.kind = "view" /\ ~app.rerun

\* The run that follows a press of Back to results has rendered.
BackRendered == app.last.kind = "back" /\ ~app.rerun

DetailOfPressedCard ==
    /\ app.view = "detail"
    /\ app.selected_id = PStr(app.last.id)
    /\ app.id = PStr(app.last.id)

GridAfterBack ==
    /\ app.view = "grid"
    /\ app.selected_id = PNone
    /\ app.back_to_results = FALSE
    /\ app.id = PStr(<<>>)

\* A press of View details or of Back to results has asked for the script
\* to be run again.
PressPending == app.last.kind \in {"view", "back"} /\ app.rerun

\* C29: a press of View details on a card leads to a render of the detail
\* view with selected_id and the id query parameter equal to the card's _id;
\* a press of Back to results leads to a render of the grid with selected_id
\* None, back_to_results False and the id parameter empty; the detail view
\* comes up only with an id parameter set, and an empty id parameter is set
\* only by a press of View details, so that after Back the detail view does
\* not come again without a new press.  The run a press asks for is the one
\* step that can follow it.
C29_NavigationIsConsistent ==
    /\ [](app # <<>> => (ViewRendered => DetailOfPressedCard))
    /\ [](app # <<>> => (BackRendered => GridAfterBack))
    /\ [][(app # <<>> /\ PressPending) =>
            (~app'.rerun /\ app'.last = app.last /\ app'.view = IF app.last.kind = "view" THEN "detail" ELSE "grid")]_vars
    /\ [][(app # <<>> /\ app.view # "detail" /\ app'.view = "detail") => HasId(app.id)]_vars
    /\ [][(app # <<>> /\ ~HasId(app.id) /\ HasId(app'.id)) =>
            (app'.last.kind = "view" /\ app'.id = PStr(app'.last.id))]_vars

\* Back was pressed in a detail view and the grid is rendered again.
C29_Witness ==
    /\ app # <<>>
    /\ BackRendered
    /\ GridAfterBack
    /\ Len(app.cards) > 1

====
